---- MODULE Spec2Model ----
(***************************************************************************)
(* A model of prism_core's suggestion engine (rust/prism_core/src/         *)
(* suggestion.rs): the conversion of line/column positions to byte         *)
(* offsets, the per-file edit planning, and dry_run / apply over a working *)
(* tree and a git index.                                                   *)
(*                                                                         *)
(* Texts and paths are sequences of UTF-8 bytes (numbers 0..255), as Rust  *)
(* strings are.  An Option<T> is a sequence of length at most one: <<>> is *)
(* None and <<v>> is Some(v).                                              *)
(***************************************************************************)
EXTENDS Integers, Sequences, FiniteSets, TLC

VARIABLES
    tree,        \* working tree: file name -> Option(text on disk)
    index,       \* the index file on disk: file name -> Option(staged text)
    memIndex,    \* the repository's in-memory index object
    suggestion,  \* the Suggestion the caller is assembling (Vec<TextEdit>)
    call,        \* the dry_run / apply call made on it, with its outcome
    text,        \* OffsetConverter: the text handed to OffsetConverter::new
    location,    \* OffsetConverter: the FileRange handed to span
    extras,      \* OffsetConverter: further FileRanges of edits to the text
    converted,   \* OffsetConverter: Option(outcome of the conversion)
    files,       \* DiffBuilder.files (Vec<DiffFile>)
    events,      \* DiffBuilder: the number of callbacks foreach has made
    last,        \* DiffBuilder: the last callback, its argument, files before it
    delta,       \* DiffBuilder: the git2::DiffDelta handed to start_file
    repository,  \* DiffEngine: the Repository handed to diff
    outcome,     \* DiffEngine: Option(what diff returned and the git calls it made)
    store,       \* plugins: TEST_PLUGIN_STORE (Vec<Arc<dyn AgentPlugin>>)
    guards,      \* plugins: the TestPluginRegistration guards not yet dropped
    registrations, \* plugins: the number of register_test_plugin calls made
    registry,    \* plugins: PluginService.registry.plugins (HashMap)
    served,      \* plugins: the last PluginService call, its result, the method invoked
    sessions,    \* AmpPlugin.sessions (HashMap<String, Arc<AmpSession>>)
    counter,     \* AmpPlugin.counter (AtomicU64)
    attaching,   \* AmpPlugin: the attach calls between next_session_id and insert
    posting,     \* AmpPlugin: the post_review calls between spawn and the slot
    revisions,   \* AmpPlugin: the revisions started, their progress and thread
    reply,       \* AmpPlugin: the last call that returned and what it returned
    run          \* AmpCli: one run call, its child process, pipes and reader threads

applyVars == <<tree, index, memIndex, suggestion, call>>
convVars == <<text, location, extras, converted>>
diffVars == <<files, events, last, delta>>
engineVars == <<repository, outcome>>
pluginVars == <<store, guards, registrations, registry, served>>
ampVars == <<sessions, counter, attaching, posting, revisions, reply>>
runVars == <<run>>
serviceVars == <<engineVars, pluginVars, ampVars, runVars>>
vars == <<tree, index, memIndex, suggestion, call, text, location, extras, converted,
          files, events, last, delta, repository, outcome,
          store, guards, registrations, registry, served,
          sessions, counter, attaching, posting, revisions, reply, run>>

(***************************************************************************)
(* Bounds of the model.                                                    *)
(***************************************************************************)
MaxEdits == 2      \* edits in one suggestion
MaxScalars == 3    \* Unicode scalars in a text given to the converter
MaxLine == 4       \* largest line number of a Position
MaxColumn == 4     \* largest column number of a Position
MaxExtras == 2     \* edits of one file beyond the first, in the planner on its own
MaxEvents == 6     \* callbacks of one diff.foreach

(***************************************************************************)
(* UTF-8 text.                                                             *)
(***************************************************************************)
NewLine == 10

\* u8 is a continuation byte 10xxxxxx: no scalar starts on it.
IsContinuation(b) == b >= 128 /\ b < 192

Replacement_Character == <<239, 191, 189>>

\* utf8_char_width: the length of the scalar a byte starts, 0 when it
\* starts none
utf8_char_width(b) ==
    IF b < 128 THEN 1
    ELSE IF b >= 194 /\ b <= 223 THEN 2
    ELSE IF b >= 224 /\ b <= 239 THEN 3
    ELSE IF b >= 240 /\ b <= 244 THEN 4
    ELSE 0

\* whether b can follow the first byte of a scalar: a continuation byte,
\* of a narrower range after E0, ED, F0 and F4 (no overlong form, no
\* surrogate, nothing past U+10FFFF)
SecondByte(first, b) ==
    CASE first = 224 -> b >= 160 /\ b <= 191
      [] first = 237 -> b >= 128 /\ b <= 159
      [] first = 240 -> b >= 144 /\ b <= 191
      [] first = 244 -> b >= 128 /\ b <= 143
      [] OTHER -> IsContinuation(b)

\* the bytes of t from offset i that begin a scalar of width w, n of them
\* counted so far: the maximal prefix of a scalar
RECURSIVE ScalarPrefix(_, _, _, _)
ScalarPrefix(t, i, w, n) ==
    IF n >= w \/ i + n >= Len(t) THEN n
    ELSE IF n = 1 /\ ~SecondByte(t[i + 1], t[i + 2]) THEN n
    ELSE IF n > 1 /\ ~IsContinuation(t[i + n + 1]) THEN n
    ELSE ScalarPrefix(t, i, w, n + 1)

\* whether a whole scalar stands at offset i of t
ScalarAt(t, i) ==
    /\ utf8_char_width(t[i + 1]) > 0
    /\ ScalarPrefix(t, i, utf8_char_width(t[i + 1]), 1) = utf8_char_width(t[i + 1])

\* whether t, from offset i on, is UTF-8
RECURSIVE Utf8ValidFrom(_, _)
Utf8ValidFrom(t, i) ==
    IF i >= Len(t) THEN TRUE
    ELSE IF t[i + 1] < 128 THEN Utf8ValidFrom(t, i + 1)
    ELSE IF ScalarAt(t, i) THEN Utf8ValidFrom(t, i + utf8_char_width(t[i + 1]))
    ELSE FALSE

\* std::str::from_utf8(bytes).is_ok()
from_utf8_ok(t) == Utf8ValidFrom(t, 0)

\* String::from_utf8_lossy: a scalar is kept, and the longest run of bytes
\* that begins a scalar and does not finish it becomes one U+FFFD
RECURSIVE LossyFrom(_, _)
LossyFrom(t, i) ==
    IF i >= Len(t) THEN <<>>
    ELSE IF t[i + 1] < 128 THEN <<t[i + 1]>> \o LossyFrom(t, i + 1)
    ELSE IF ScalarAt(t, i)
    THEN SubSeq(t, i + 1, i + utf8_char_width(t[i + 1]))
             \o LossyFrom(t, i + utf8_char_width(t[i + 1]))
    ELSE Replacement_Character
             \o LossyFrom(t, i + ScalarPrefix(t, i, utf8_char_width(t[i + 1]), 1))

from_utf8_lossy(t) == LossyFrom(t, 0)

\* str::is_char_boundary
is_char_boundary(t, i) ==
    \/ i = 0
    \/ i = Len(t)
    \/ i > 0 /\ i < Len(t) /\ ~IsContinuation(t[i + 1])

\* &t[from..to] as a byte sequence (0-based, half open)
Slice(t, from, to) == [k \in 1..(to - from) |-> t[from + k]]

\* OffsetConverter::new: offset 0, then the offset after every '\n'.
RECURSIVE LineStartsFrom(_, _)
LineStartsFrom(t, i) ==
    IF i >= Len(t) THEN <<>>
    ELSE IF t[i + 1] = NewLine
         THEN <<i + 1>> \o LineStartsFrom(t, i + 1)
         ELSE LineStartsFrom(t, i + 1)

line_starts(t) == <<0>> \o LineStartsFrom(t, 0)

unwrap_or(opt, default) == IF opt = <<>> THEN default ELSE opt[1]

OkOffset(n) == [kind |-> "Ok", value |-> n]
OffsetErr(k) == [kind |-> k, value |-> 0]

\* A walk that takes every byte for a scalar start (a column per byte).
RECURSIVE ColumnWalkBytes(_, _, _, _, _, _)
ColumnWalkBytes(slice, i, column, target, line_start, line_end) ==
    IF i >= Len(slice)
    THEN IF column = target THEN OkOffset(line_end)
         ELSE OffsetErr("ColumnOutOfBounds")
    ELSE IF column = target THEN OkOffset(line_start + i)
    ELSE ColumnWalkBytes(slice, i + 1, column + 1, target, line_start, line_end)

\* The loop over slice.char_indices() and the check after it: column counts
\* scalars, and the column one past the last scalar is the line's end.
RECURSIVE ColumnWalk(_, _, _, _, _, _)
ColumnWalk(slice, i, column, target, line_start, line_end) ==
    IF i >= Len(slice)
    THEN IF column = target THEN OkOffset(line_end)
         ELSE OffsetErr("ColumnOutOfBounds")
    ELSE IF IsContinuation(slice[i + 1])
    THEN ColumnWalk(slice, i + 1, column, target, line_start, line_end)
    ELSE IF column = target THEN OkOffset(line_start + i)
    ELSE ColumnWalk(slice, i + 1, column + 1, target, line_start, line_end)

\* A conversion that takes a column past the line's end for the line's end.
OffsetInLineClamped(t, line_start, line_end, target_column) ==
    IF target_column = 1 THEN OkOffset(line_start)
    ELSE IF ColumnWalk(Slice(t, line_start, line_end), 0, 1, target_column,
                       line_start, line_end).kind = "Ok"
    THEN ColumnWalk(Slice(t, line_start, line_end), 0, 1, target_column,
                    line_start, line_end)
    ELSE OkOffset(line_end)

\* A conversion that refuses the column one past the line's last scalar.
OffsetInLineNoEnd(t, line_start, line_end, target_column) ==
    IF target_column = 1 THEN OkOffset(line_start)
    ELSE IF ColumnWalk(Slice(t, line_start, line_end), 0, 1, target_column,
                       line_start, line_end) = OkOffset(line_end)
    THEN OffsetErr("ColumnOutOfBounds")
    ELSE ColumnWalk(Slice(t, line_start, line_end), 0, 1, target_column,
                    line_start, line_end)

\* offset, within a line of the table (suggestion.rs:322-345)
OffsetInLine(t, line_start, line_end, target_column) ==
    IF target_column = 1 THEN OkOffset(line_start)
    ELSE ColumnWalk(Slice(t, line_start, line_end), 0, 1, target_column,
                    line_start, line_end)

\* A conversion that refuses the line one past the table.
OffsetAtStrict(t, starts, line, column) ==
    IF line = 0 THEN OffsetErr("LineOutOfBounds")
    ELSE IF line - 1 >= Len(starts) THEN OffsetErr("LineOutOfBounds")
    ELSE OffsetInLine(t, starts[line],
                      IF line < Len(starts) THEN starts[line + 1] ELSE Len(t),
                      unwrap_or(column, 1))

\* A conversion that takes the line one past the table for the text's start.
OffsetAtWrapping(t, starts, line, column) ==
    IF line = 0 THEN OffsetErr("LineOutOfBounds")
    ELSE IF line - 1 > Len(starts) THEN OffsetErr("LineOutOfBounds")
    ELSE IF line - 1 = Len(starts)
    THEN IF unwrap_or(column, 1) = 1 THEN OkOffset(0)
         ELSE OffsetErr("ColumnOutOfBounds")
    ELSE OffsetInLine(t, starts[line],
                      IF line < Len(starts) THEN starts[line + 1] ELSE Len(t),
                      unwrap_or(column, 1))

\* offset, given the line-start table (suggestion.rs:284-320); line - 1 is
\* line_index
OffsetAt(t, starts, line, column) ==
    IF line = 0 THEN OffsetErr("LineOutOfBounds")
    ELSE IF line - 1 > Len(starts) THEN OffsetErr("LineOutOfBounds")
    ELSE IF line - 1 = Len(starts)
    THEN IF unwrap_or(column, 1) = 1 THEN OkOffset(Len(t))
         ELSE OffsetErr("ColumnOutOfBounds")
    ELSE OffsetInLine(t, starts[line],
                      IF line < Len(starts) THEN starts[line + 1] ELSE Len(t),
                      unwrap_or(column, 1))

\* OffsetConverter::offset on the converter of text t
offset(t, position) ==
    OffsetAt(t, line_starts(t), position.line, position.column)

SpanResult(kind, start, end, offsets) ==
    [kind |-> kind, start |-> start, end |-> end, offsets |-> offsets]

\* A span that also refuses an empty range.
SpanEndsStrict(s, e) ==
    IF e.kind # "Ok" THEN SpanResult(e.kind, s.value, 0, 2)
    ELSE IF s.value >= e.value THEN SpanResult("InvalidRange", s.value, e.value, 2)
    ELSE SpanResult("Ok", s.value, e.value, 2)

\* span, once both offsets are known (suggestion.rs:272-280)
SpanEnds(s, e) ==
    IF e.kind # "Ok" THEN SpanResult(e.kind, s.value, 0, 2)
    ELSE IF s.value > e.value THEN SpanResult("InvalidRange", s.value, e.value, 2)
    ELSE SpanResult("Ok", s.value, e.value, 2)

\* span, once the start offset is known (suggestion.rs:269-270)
SpanFrom(s, t, range) ==
    IF s.kind # "Ok" THEN SpanResult(s.kind, 0, 0, 1)
    ELSE SpanEnds(s, offset(t, range.end))

\* OffsetConverter::span.  offsets counts the calls of offset it made.
span(t, range) ==
    IF range.side # "Head" THEN SpanResult("UnsupportedSide", 0, 0, 0)
    ELSE SpanFrom(offset(t, range.start), t, range)

(***************************************************************************)
(* Paths.  A path is the byte string of TextEdit.location.path.             *)
(***************************************************************************)
Slash == 47
Dot == 46

\* the index of the first '/' of p from i on, or 0
FirstSlash(p, i) ==
    IF \A j \in i..Len(p) : p[j] # Slash THEN 0
    ELSE CHOOSE j \in i..Len(p) : p[j] = Slash /\ \A h \in i..(j - 1) : p[h] # Slash

\* a '/' of p to split it at: the first one of its second half, or else
\* the first one, or 0
SplitAt(p) ==
    IF FirstSlash(p, (Len(p) \div 2) + 1) # 0 THEN FirstSlash(p, (Len(p) \div 2) + 1)
    ELSE FirstSlash(p, 1)

\* the path split at every '/': the segments before and after one of them
RECURSIVE Segments(_)
SegmentsAt(p, i) ==
    IF i = 0 THEN <<p>>
    ELSE Segments(SubSeq(p, 1, i - 1)) \o Segments(SubSeq(p, i + 1, Len(p)))

Segments(p) == SegmentsAt(p, SplitAt(p))

\* the working directory of the repository the callers open, "/r/": libgit2
\* gives the workdir with its trailing separator
RepoRoot == <<47, 114, 47>>

\* Path::is_absolute on a Unix path
is_absolute(p) == Len(p) > 0 /\ p[1] = Slash

\* components().any(|c| matches!(c, Component::ParentDir))
AnyParentDir(segs) == \E i \in 1..Len(segs) : segs[i] = <<Dot, Dot>>

\* A check that only looks for a leading "..".
sanitize_path_leading(p) ==
    IF is_absolute(p) THEN "AbsolutePath"
    ELSE IF Len(p) >= 3 /\ SubSeq(p, 1, 3) = <<Dot, Dot, Slash>> THEN "PathTraversal"
    ELSE "Ok"

\* sanitize_path: the error kind, or "Ok"
sanitize_path(p) ==
    IF is_absolute(p) THEN "AbsolutePath"
    ELSE IF AnyParentDir(Segments(p)) THEN "PathTraversal"
    ELSE "Ok"

\* the segment names a directory entry: path resolution passes over the
\* empty and the "." segments
NamesEntry(seg) == seg # <<>> /\ seg # <<Dot>>

\* the index of the first segment, from i on, that names a directory entry,
\* or 0
FirstEntry(segs, i) ==
    IF \A j \in i..Len(segs) : ~NamesEntry(segs[j]) THEN 0
    ELSE CHOOSE j \in i..Len(segs) :
            NamesEntry(segs[j]) /\ \A h \in i..(j - 1) : ~NamesEntry(segs[h])

\* FileOf: the entry of the root directory that root.join(path) goes
\* through first; it is the file the path names when the path names a file.
EntryAt(segs, k) == IF k = 0 THEN <<>> ELSE segs[k]

FileOf(p) == EntryAt(Segments(p), FirstEntry(Segments(p), 1))

\* Order of &str keys in the BTreeMap: byte-wise lexicographic.
RECURSIVE StrLess(_, _)
StrLess(p, q) ==
    IF q = <<>> THEN FALSE
    ELSE IF p = <<>> THEN TRUE
    ELSE IF p[1] < q[1] THEN TRUE
    ELSE IF p[1] > q[1] THEN FALSE
    ELSE StrLess(Tail(p), Tail(q))

\* The last key instead of the first.
Greatest(S) == CHOOSE p \in S : \A q \in S \ {p} : StrLess(q, p)

Least(S) == CHOOSE p \in S : \A q \in S \ {p} : StrLess(p, q)

\* the keys of the BTreeMap in iteration order
RECURSIVE SortedKeys(_)
RECURSIVE SortedKeysFrom(_, _)
SortedKeysFrom(least, S) == <<least>> \o SortedKeys(S \ {least})

SortedKeys(S) == IF S = {} THEN <<>> ELSE SortedKeysFrom(Least(S), S)

(***************************************************************************)
(* The working tree.                                                       *)
(***************************************************************************)
FileA == <<97>>         \* "a"
FileB == <<98>>         \* "b"
FileG == <<103>>        \* "g"
FileNames == {FileA, FileB, FileG}

Content(tr, f) == IF f \in DOMAIN tr THEN tr[f] ELSE <<>>

ReadResult(kind, content) == [kind |-> kind, text |-> content]

\* The open of fs::read_to_string, the path resolved from the root
\* directory, whose entries are regular files: no entry named is the root
\* itself (EISDIR), a first entry whose name is longer than NAME_MAX, 255
\* bytes, is ENAMETOOLONG, ErrorKind::InvalidFilename, whether or not
\* anything follows it, an absent entry is ENOENT, a segment after a file,
\* an empty or a "." one included, is ENOTDIR, and a file whose bytes are not
\* UTF-8 is ErrorKind::InvalidData
ReadAt(tr, segs, k) ==
    IF k = 0 THEN ReadResult("IsADirectory", <<>>)
    ELSE IF Len(segs[k]) > 255 THEN ReadResult("InvalidFilename", <<>>)
    ELSE IF Content(tr, segs[k]) = <<>> THEN ReadResult("NotFound", <<>>)
    ELSE IF k < Len(segs) THEN ReadResult("NotADirectory", <<>>)
    ELSE IF ~from_utf8_ok(Content(tr, segs[k])[1]) THEN ReadResult("InvalidData", <<>>)
    ELSE ReadResult("Ok", Content(tr, segs[k])[1])

\* sanitize_path: root.join(candidate), as PathBuf::push makes it: an
\* absolute path replaces the root, and a separator is put in unless the
\* root ends with one (suggestion.rs:187)
join(root, p) ==
    IF is_absolute(p) THEN p
    ELSE IF root # <<>> /\ root[Len(root)] # Slash THEN root \o <<Slash>> \o p
    ELSE root \o p

\* fs::read_to_string(root.join(path)): kind is "Ok" with the text, or the
\* io::ErrorKind.  A path that holds a NUL byte is refused by std before
\* any system call (ErrorKind::InvalidInput), and a joined path of PATH_MAX,
\* 4096 bytes, or more is refused by the system before it resolves anything
\* (ENAMETOOLONG, ErrorKind::InvalidFilename).  The root is a directory that
\* exists, the working directory of the repository.
read_to_string(root, tr, p) ==
    IF \E i \in 1..Len(p) : p[i] = 0 THEN ReadResult("InvalidInput", <<>>)
    ELSE IF Len(join(root, p)) >= 4096 THEN ReadResult("InvalidFilename", <<>>)
    ELSE ReadAt(tr, Segments(p), FirstEntry(Segments(p), 1))

(***************************************************************************)
(* The edit planner: build_change and compute_changes.                     *)
(***************************************************************************)
Replacement(sp, rep) == [start |-> sp.start, end |-> sp.end, replacement |-> rep]

Seen(offsetsFor, id, sp) ==
    IF sp.offsets > 0 THEN offsetsFor \cup {id} ELSE offsetsFor

\* The loop over the file's edits (suggestion.rs:143-152).  ids are the
\* positions in the suggestion of the file's edits, in suggestion order.
\* Stops at the first span that fails; offsetsFor collects the edits offset
\* was called for.
RECURSIVE SpanEdits(_, _, _, _, _)
RECURSIVE SpanEditsStep(_, _, _, _, _, _)
SpanEditsStep(t, sug, ids, acc, offsetsFor, sp) ==
    IF sp.kind # "Ok"
    THEN [kind |-> sp.kind, replacements |-> <<>>,
          offsetsFor |-> Seen(offsetsFor, Head(ids), sp)]
    ELSE SpanEdits(t, sug, Tail(ids),
                   Append(acc, Replacement(sp, sug[Head(ids)].replacement)),
                   Seen(offsetsFor, Head(ids), sp))

SpanEdits(t, sug, ids, acc, offsetsFor) ==
    IF ids = <<>>
    THEN [kind |-> "Ok", replacements |-> acc, offsetsFor |-> offsetsFor]
    ELSE SpanEditsStep(t, sug, ids, acc, offsetsFor,
                       span(t, sug[Head(ids)].location))

\* sort_by_key(|r| r.start) is a stable sort: r goes after every element
\* whose start is not greater.
RECURSIVE InsertByStart(_, _)
InsertByStart(sorted, r) ==
    IF sorted = <<>> THEN <<r>>
    ELSE IF sorted[Len(sorted)].start <= r.start THEN Append(sorted, r)
    ELSE Append(InsertByStart(SubSeq(sorted, 1, Len(sorted) - 1), r),
                sorted[Len(sorted)])

RECURSIVE sort_by_start(_)
sort_by_start(reps) ==
    IF reps = <<>> THEN <<>>
    ELSE InsertByStart(sort_by_start(SubSeq(reps, 1, Len(reps) - 1)),
                       reps[Len(reps)])

\* A check that looks at the first two replacements only.
ensure_first_window(reps) ==
    Len(reps) < 2 \/ ~(reps[1].end > reps[2].start)

\* ensure_non_overlapping: TRUE when no window of two has first.end > second.start
ensure_non_overlapping(reps) ==
    \A i \in 1..(Len(reps) - 1) : ~(reps[i].end > reps[i + 1].start)

\* String::replace_range(start..end, with): panics unless start <= end <= len
\* and both are char boundaries.
replace_range(t, start, end, with) ==
    IF start <= end /\ end <= Len(t)
       /\ is_char_boundary(t, start) /\ is_char_boundary(t, end)
    THEN [panic |-> FALSE,
          text |-> SubSeq(t, 1, start) \o with \o SubSeq(t, end + 1, Len(t))]
    ELSE [panic |-> TRUE, text |-> t]

\* A splice that walks the replacements in ascending order.
RECURSIVE SpliceAscending(_, _)
SpliceAscending(t, reps) ==
    IF reps = <<>> THEN [panic |-> FALSE, text |-> t]
    ELSE IF replace_range(t, reps[1].start, reps[1].end, reps[1].replacement).panic
    THEN [panic |-> TRUE, text |-> t]
    ELSE SpliceAscending(
            replace_range(t, reps[1].start, reps[1].end, reps[1].replacement).text,
            Tail(reps))

\* for replacement in replacements.iter().rev() { updated.replace_range(..) }
RECURSIVE SpliceDescending(_, _)
RECURSIVE SpliceNext(_, _)
SpliceNext(one, reps) ==
    IF one.panic THEN one
    ELSE SpliceDescending(one.text, SubSeq(reps, 1, Len(reps) - 1))

SpliceDescending(t, reps) ==
    IF reps = <<>> THEN [panic |-> FALSE, text |-> t]
    ELSE SpliceNext(replace_range(t, reps[Len(reps)].start, reps[Len(reps)].end,
                                  reps[Len(reps)].replacement),
                    reps)

NoChange(kind, path, read, offsetsFor) ==
    [kind |-> kind, path |-> path, original |-> <<>>, updated |-> <<>>,
     read |-> read, offsetsFor |-> offsetsFor, replacements |-> <<>>,
     panic |-> FALSE]

\* build_change, the FileChange (suggestion.rs:157-166); panic tells whether
\* the splice panicked
BuildSpliced(path, original, spans, sorted, spliced) ==
    [kind |-> "Ok", path |-> path, original |-> original,
     updated |-> spliced.text, read |-> TRUE, offsetsFor |-> spans.offsetsFor,
     replacements |-> sorted, panic |-> spliced.panic]

\* build_change, from the sorted replacements (suggestion.rs:155-160)
BuildSorted(path, original, spans, sorted) ==
    IF ~ensure_non_overlapping(sorted)
    THEN NoChange("OverlappingEdits", path, TRUE, spans.offsetsFor)
    ELSE BuildSpliced(path, original, spans, sorted,
                      SpliceDescending(original, sorted))

\* build_change, from the spans of the edits (suggestion.rs:143-154)
BuildSpans(path, original, spans) ==
    IF spans.kind # "Ok" THEN NoChange(spans.kind, path, TRUE, spans.offsetsFor)
    ELSE BuildSorted(path, original, spans, sort_by_start(spans.replacements))

\* build_change, from what read_to_string gave (suggestion.rs:127-141):
\* NotFound is MissingFile and any other error is SuggestionError::Io
BuildRead(sug, path, ids, content) ==
    IF content.kind = "NotFound" THEN NoChange("MissingFile", path, TRUE, {})
    ELSE IF content.kind # "Ok" THEN NoChange("Io", path, TRUE, {})
    ELSE BuildSpans(path, content.text,
                    SpanEdits(content.text, sug, ids, <<>>, {}))

\* A build that reads the file before it checks the path.
BuildReadFirst(root, tr, sug, path, ids, checked) ==
    IF read_to_string(root, tr, path).kind = "NotFound"
    THEN NoChange("MissingFile", path, TRUE, {})
    ELSE IF read_to_string(root, tr, path).kind # "Ok"
    THEN NoChange("Io", path, TRUE, {})
    ELSE IF checked # "Ok" THEN NoChange(checked, path, FALSE, {})
    ELSE BuildRead(sug, path, ids, read_to_string(root, tr, path))

\* build_change, from the path check (suggestion.rs:125-126)
BuildChecked(root, tr, sug, path, ids, checked) ==
    IF checked # "Ok" THEN NoChange(checked, path, FALSE, {})
    ELSE BuildRead(sug, path, ids, read_to_string(root, tr, path))

\* SuggestionApplier::build_change for one path and the edits that name it.
\* read tells whether the file was read.
build_change(root, tr, sug, path, ids) ==
    BuildChecked(root, tr, sug, path, ids, sanitize_path(path))

\* the BTreeMap entry of a path: the positions of its edits, in order
EditsOf(sug, path) ==
    SelectSeq([i \in 1..Len(sug) |-> i], LAMBDA i : sug[i].location.path = path)

PathsOf(sug) == {sug[i].location.path : i \in 1..Len(sug)}

\* The loop over the grouped edits (suggestion.rs:116-119).  Stops at the
\* first file that fails; reads lists the paths read so far.
RECURSIVE BuildChanges(_, _, _, _, _, _, _)
RECURSIVE BuildChangesStep(_, _, _, _, _, _, _, _)
BuildChangesStep(root, tr, sug, paths, changes, reads, offsetsFor, c) ==
    IF c.kind # "Ok" \/ c.panic
    THEN [kind |-> c.kind, path |-> c.path, changes |-> <<>>,
          reads |-> IF c.read THEN Append(reads, c.path) ELSE reads,
          offsetsFor |-> offsetsFor \cup c.offsetsFor, panic |-> c.panic]
    ELSE BuildChanges(root, tr, sug, Tail(paths), Append(changes, c),
                      Append(reads, c.path), offsetsFor \cup c.offsetsFor)

BuildChanges(root, tr, sug, paths, changes, reads, offsetsFor) ==
    IF paths = <<>>
    THEN [kind |-> "Ok", path |-> <<>>, changes |-> changes, reads |-> reads,
          offsetsFor |-> offsetsFor, panic |-> FALSE]
    ELSE BuildChangesStep(root, tr, sug, paths, changes, reads, offsetsFor,
             build_change(root, tr, sug, Head(paths), EditsOf(sug, Head(paths))))

\* SuggestionApplier::compute_changes
compute_changes(root, tr, sug) ==
    BuildChanges(root, tr, sug, SortedKeys(PathsOf(sug)), <<>>, <<>>, {})

(***************************************************************************)
(* dry_run and apply.                                                      *)
(***************************************************************************)
\* A selection that keeps the files without a net change.
ChangedAll(changes) == SelectSeq(changes, LAMBDA c : TRUE)

Changed(changes) == SelectSeq(changes, LAMBDA c : c.original # c.updated)

Result(kind, path) == [kind |-> kind, path |-> path]

PlanResult(cc) ==
    IF cc.panic THEN Result("Panic", cc.path) ELSE Result(cc.kind, cc.path)

Previews(changed) ==
    [i \in 1..Len(changed) |->
        [path |-> changed[i].path, original |-> changed[i].original,
         updated |-> changed[i].updated]]

\* A preview that writes the first changed file, as apply would.
DryRunWriting(tr, cc) ==
    [result |-> PlanResult(cc), previews |-> Previews(Changed(cc.changes)),
     plan |-> cc.changes, reads |-> cc.reads, offsetsFor |-> cc.offsetsFor,
     tree |-> IF Changed(cc.changes) = <<>> THEN tr
              ELSE [tr EXCEPT ![FileOf(Changed(cc.changes)[1].path)] =
                                  <<Changed(cc.changes)[1].updated>>]]

\* dry_run, from the planned changes (suggestion.rs:43-64).  A preview
\* stands for the patch between original and updated; Patch::from_buffers is
\* taken not to fail.  tree is the working tree the call leaves.
DryRunPlanned(tr, cc) ==
    [result |-> PlanResult(cc), previews |-> Previews(Changed(cc.changes)),
     plan |-> cc.changes, reads |-> cc.reads, offsetsFor |-> cc.offsetsFor,
     tree |-> tr]

\* SuggestionApplier::dry_run
dry_run(root, tr, sug) == DryRunPlanned(tr, compute_changes(root, tr, sug))

\* What the environment does to one apply call: nothing, or one failure.
\* A failed fs::write leaves the file untouched (left = None) or holding
\* the first left[1] bytes of the new text.
NoFault == [kind |-> "none", at |-> 0, left |-> <<>>]

Faults(changed) ==
    {NoFault}
    \cup {[kind |-> k, at |-> 0, left |-> <<>>] : k \in {"index_open", "index_write"}}
    \cup {[kind |-> "stage", at |-> n, left |-> <<>>] : n \in 1..Len(changed)}
    \cup UNION {{[kind |-> "write", at |-> n, left |-> l] :
                    l \in {<<>>} \cup {<<m>> : m \in 0..(Len(changed[n].updated) - 1)}} :
                n \in 1..Len(changed)}

NoDotSegment(segs) ==
    \A i \in 1..Len(segs) : segs[i] # <<Dot>> /\ segs[i] # <<Dot, Dot>>

\* git_index_add_bypath (Index::add_path) refuses a path with a "." or ".."
\* segment as an invalid path, whatever file it names.
StagePathValid(p) == NoDotSegment(Segments(p))

LoopEnd(kind, path, tr, mem, writeCalls, stageCalls) ==
    [result |-> Result(kind, path), tree |-> tr, mem |-> mem,
     writeCalls |-> writeCalls, stageCalls |-> stageCalls]

\* fs::write that fails: what it leaves of the file
FailedWrite(tr, f, updated, fault) ==
    IF fault.left = <<>> THEN tr
    ELSE [tr EXCEPT ![f] = <<SubSeq(updated, 1, fault.left[1])>>]

RECURSIVE ApplyLoop(_, _, _, _, _, _, _)

\* A step that writes a file and does not stage it.
WriteOnly(changes, k, tr, mem, writeCalls, stageCalls, fault, c, f) ==
    ApplyLoop(Tail(changes), k + 1, [tr EXCEPT ![f] = <<c.updated>>], mem,
              Append(writeCalls, c.path), stageCalls, fault)

\* A step that stages the path before it writes the file.
StageThenWrite(changes, k, tr, mem, writeCalls, stageCalls, fault, c, f) ==
    IF ~StagePathValid(c.path) \/ (fault.kind = "stage" /\ fault.at = k + 1)
    THEN LoopEnd("GitApply", c.path, tr, mem,
                 Append(writeCalls, c.path), Append(stageCalls, c.path))
    ELSE IF fault.kind = "write" /\ fault.at = k + 1
    THEN LoopEnd("Io", c.path, FailedWrite(tr, f, c.updated, fault), mem,
                 Append(writeCalls, c.path), stageCalls)
    ELSE ApplyLoop(Tail(changes), k + 1, [tr EXCEPT ![f] = <<c.updated>>],
                   [mem EXCEPT ![f] = <<c.updated>>],
                   Append(writeCalls, c.path), Append(stageCalls, c.path), fault)

\* One changed file of the loop: fs::write, then index.add_path
\* (suggestion.rs:88-99).  add_path stages the content it finds on disk.
WriteAndStage(changes, k, tr, mem, writeCalls, stageCalls, fault, c, f) ==
    IF fault.kind = "write" /\ fault.at = k + 1
    THEN LoopEnd("Io", c.path, FailedWrite(tr, f, c.updated, fault), mem,
                 Append(writeCalls, c.path), stageCalls)
    ELSE IF ~StagePathValid(c.path) \/ (fault.kind = "stage" /\ fault.at = k + 1)
    THEN LoopEnd("GitApply", c.path, [tr EXCEPT ![f] = <<c.updated>>], mem,
                 Append(writeCalls, c.path), Append(stageCalls, c.path))
    ELSE ApplyLoop(Tail(changes), k + 1, [tr EXCEPT ![f] = <<c.updated>>],
                   [mem EXCEPT ![f] = <<c.updated>>],
                   Append(writeCalls, c.path), Append(stageCalls, c.path), fault)

\* A loop that does not skip the files without a net change.
LoopStepAll(changes, k, tr, mem, writeCalls, stageCalls, fault) ==
    WriteAndStage(changes, k, tr, mem, writeCalls, stageCalls, fault,
                  Head(changes), FileOf(Head(changes).path))

\* One turn of the loop (suggestion.rs:83-87)
LoopStep(changes, k, tr, mem, writeCalls, stageCalls, fault) ==
    IF Head(changes).original = Head(changes).updated
    THEN ApplyLoop(Tail(changes), k, tr, mem, writeCalls, stageCalls, fault)
    ELSE WriteAndStage(changes, k, tr, mem, writeCalls, stageCalls, fault,
                       Head(changes), FileOf(Head(changes).path))

\* The loop over the changes (suggestion.rs:83-100); k counts the changed
\* files written and staged so far.
ApplyLoop(changes, k, tr, mem, writeCalls, stageCalls, fault) ==
    IF changes = <<>> THEN LoopEnd("Ok", <<>>, tr, mem, writeCalls, stageCalls)
    ELSE LoopStep(changes, k, tr, mem, writeCalls, stageCalls, fault)

Outcome(result, cc, tr, idx, mem, writeCalls, stageCalls) ==
    [result |-> result, plan |-> cc.changes, reads |-> cc.reads,
     offsetsFor |-> cc.offsetsFor, tree |-> tr, index |-> idx, mem |-> mem,
     writeCalls |-> writeCalls, stageCalls |-> stageCalls]

\* An apply that persists the index as far as it got when the loop fails.
ApplyLoopedPersisting(cc, idx, fault, loop) ==
    IF loop.result.kind # "Ok"
    THEN Outcome(loop.result, cc, loop.tree, loop.mem, loop.mem,
                 loop.writeCalls, loop.stageCalls)
    ELSE IF fault.kind = "index_write"
    THEN Outcome(Result("Git", <<>>), cc, loop.tree, idx, loop.mem,
                 loop.writeCalls, loop.stageCalls)
    ELSE Outcome(Result("Ok", <<>>), cc, loop.tree, loop.mem, loop.mem,
                 loop.writeCalls, loop.stageCalls)

\* apply, after the loop: index.write() (suggestion.rs:102-103)
ApplyLooped(cc, idx, fault, loop) ==
    IF loop.result.kind # "Ok"
    THEN Outcome(loop.result, cc, loop.tree, idx, loop.mem,
                 loop.writeCalls, loop.stageCalls)
    ELSE IF fault.kind = "index_write"
    THEN Outcome(Result("Git", <<>>), cc, loop.tree, idx, loop.mem,
                 loop.writeCalls, loop.stageCalls)
    ELSE Outcome(Result("Ok", <<>>), cc, loop.tree, loop.mem, loop.mem,
                 loop.writeCalls, loop.stageCalls)

\* the changes built for the paths that come before the first failing one
ValidPrefix(tr, sug, cc) ==
    IF cc.kind = "Ok" THEN cc.changes
    ELSE BuildChanges(RepoRoot, tr, sug,
             SelectSeq(SortedKeys(PathsOf(sug)), LAMBDA p : StrLess(p, cc.path)),
             <<>>, <<>>, {}).changes

\* An apply that writes each file as soon as its own edits are validated.
ApplyEager(tr, idx, mem, sug, fault, cc) ==
    IF cc.panic \/ cc.kind # "Ok"
    THEN Outcome(PlanResult(cc), cc,
                 ApplyLoop(ValidPrefix(tr, sug, cc), 0, tr, mem, <<>>, <<>>, NoFault).tree,
                 idx, mem, <<>>, <<>>)
    ELSE ApplyLooped(cc, idx, fault,
                     ApplyLoop(cc.changes, 0, tr, mem, <<>>, <<>>, fault))

\* apply, from the planned changes (suggestion.rs:74-83)
ApplyPlanned(tr, idx, mem, sug, fault, cc) ==
    IF cc.panic \/ cc.kind # "Ok"
    THEN Outcome(PlanResult(cc), cc, tr, idx, mem, <<>>, <<>>)
    ELSE IF cc.changes = <<>>
    THEN Outcome(Result("Ok", <<>>), cc, tr, idx, mem, <<>>, <<>>)
    ELSE IF fault.kind = "index_open"
    THEN Outcome(Result("Git", <<>>), cc, tr, idx, mem, <<>>, <<>>)
    ELSE ApplyLooped(cc, idx, fault,
                     ApplyLoop(cc.changes, 0, tr, mem, <<>>, <<>>, fault))

\* SuggestionApplier::apply
apply(root, tr, idx, mem, sug, fault) ==
    ApplyPlanned(tr, idx, mem, sug, fault, compute_changes(root, tr, sug))

(***************************************************************************)
(* The inputs: working trees and edits.                                    *)
(***************************************************************************)
EAcute == <<195, 169>>                 \* "é", one scalar of two bytes

PathA == <<97>>                        \* "a"
PathDotA == <<46, 47, 97>>             \* "./a", another spelling of "a"
PathB == <<98>>                        \* "b"
PathG == <<103>>                       \* "g"
PathAbs == <<47, 97>>                  \* "/a"
PathUp == <<98, 47, 46, 46, 47, 97>>   \* "b/../a"
PathSlash == <<97, 47>>                \* "a/", the file a taken for a directory
PathNul == <<97, 0>>                   \* "a" and a NUL byte, a name std refuses

\* "éa\nb" in a, "a\n" in b
TreeOne ==
    [f \in FileNames |->
        IF f = FileA THEN <<EAcute \o <<97, 10, 98>>>>
        ELSE IF f = FileB THEN <<<<97, 10>>>>
        ELSE <<>>]

\* "a\n" in a, no b, and in g the bytes FF 0A, which are not UTF-8
TreeTwo ==
    [f \in FileNames |->
        IF f = FileA THEN <<<<97, 10>>>>
        ELSE IF f = FileG THEN <<<<255, 10>>>>
        ELSE <<>>]

InitialTrees == {TreeOne, TreeTwo}

Pos(l, c) == [line |-> l, column |-> <<c>>]
PosLine(l) == [line |-> l, column |-> <<>>]

Edit(path, side, start, end, rep) ==
    [location |-> [path |-> path, side |-> side, start |-> start, end |-> end],
     replacement |-> rep]

\* Head-side ranges that resolve in both trees
ResolvingRanges ==
    {<<Pos(1, 1), Pos(1, 2)>>, <<Pos(1, 2), Pos(1, 3)>>, <<Pos(1, 1), Pos(1, 3)>>,
     <<Pos(1, 2), Pos(1, 2)>>, <<PosLine(2), Pos(3, 1)>>}

\* Head-side ranges that fail: start after end, line and column out of bounds
FailingRanges ==
    {<<Pos(1, 3), Pos(1, 1)>>, <<Pos(4, 1), Pos(4, 1)>>, <<Pos(1, 5), Pos(1, 5)>>}

Edits ==
    {Edit(PathA, "Head", r[1], r[2], rep) :
        r \in ResolvingRanges, rep \in {<<>>, EAcute}}
    \cup {Edit(PathA, "Head", r[1], r[2], <<>>) : r \in FailingRanges}
    \cup {Edit(PathDotA, "Head", Pos(1, 1), Pos(1, 2), rep) : rep \in {<<>>, EAcute}}
    \cup {Edit(PathB, "Head", Pos(1, 1), Pos(1, 2), rep) : rep \in {<<>>, <<97>>}}
    \cup {Edit(PathB, "Head", Pos(2, 1), Pos(2, 1), EAcute)}
    \cup {Edit(PathA, "Base", Pos(1, 1), Pos(1, 2), <<>>),
          Edit(PathB, "Base", PosLine(0), PosLine(0), <<>>)}
    \cup {Edit(p, "Head", Pos(1, 1), Pos(1, 1), <<97>>) : p \in {PathAbs, PathUp, PathG, PathSlash, PathNul}}

\* Texts of at most n scalars over "a", "\n" and "é"
RECURSIVE TextsUpTo(_)
TextsUpTo(n) ==
    IF n = 0 THEN {<<>>}
    ELSE TextsUpTo(n - 1)
         \cup {t \o c : t \in TextsUpTo(n - 1), c \in {<<97>>, <<NewLine>>, EAcute}}

Positions ==
    {[line |-> l, column |-> c] :
        l \in 0..MaxLine, c \in {<<>>} \cup {<<k>> : k \in 0..MaxColumn}}

(***************************************************************************)
(* The diff builder (rust/prism_core/src/diff.rs).  A stored DiffFile,     *)
(* DiffHunk and DiffLine carries in "at" the number of the callback that   *)
(* created it; the field is not part of the program's data.                *)
(***************************************************************************)
\* A classifier that takes an untracked file for a modified one.
convert_status_untracked(status) ==
    CASE status = "Added" -> "Added"
      [] status = "Deleted" -> "Deleted"
      [] status \in {"Modified", "Ignored", "Unreadable", "Conflicted", "Unmodified",
                     "Untracked"}
            -> "Modified"
      [] status = "Renamed" -> "Renamed"
      [] status = "Copied" -> "Copied"
      [] status = "Typechange" -> "TypeChange"

\* convert_status, on the name of the git2::Delta
convert_status(status) ==
    CASE status \in {"Added", "Untracked"} -> "Added"
      [] status = "Deleted" -> "Deleted"
      [] status \in {"Modified", "Ignored", "Unreadable", "Conflicted", "Unmodified"}
            -> "Modified"
      [] status = "Renamed" -> "Renamed"
      [] status = "Copied" -> "Copied"
      [] status = "Typechange" -> "TypeChange"

\* convert_line_kind, on the name of the git2::DiffLineType: Option(kind)
convert_line_kind(origin) ==
    CASE origin \in {"Context", "ContextEOFNL"} -> <<"Context">>
      [] origin \in {"Addition", "AddEOFNL"} -> <<"Addition">>
      [] origin \in {"Deletion", "DeleteEOFNL"} -> <<"Deletion">>
      [] origin \in {"Binary", "FileHeader", "HunkHeader"} -> <<>>

CarriageReturn == 13
At == 64
\* trim_line_endings: one trailing "\n", and a "\r" before it
trim_line_endings(line) ==
    IF Len(line) > 0 /\ line[Len(line)] = NewLine
    THEN IF Len(line) > 1 /\ line[Len(line) - 1] = CarriageReturn
         THEN SubSeq(line, 1, Len(line) - 2)
         ELSE SubSeq(line, 1, Len(line) - 1)
    ELSE line

\* sanitize_line
sanitize_line(bytes) == trim_line_endings(from_utf8_lossy(bytes))

\* str::trim_end_matches(['\r', '\n'])
RECURSIVE trim_end_matches(_)
trim_end_matches(t) ==
    IF Len(t) > 0 /\ t[Len(t)] \in {CarriageReturn, NewLine}
    THEN trim_end_matches(SubSeq(t, 1, Len(t) - 1))
    ELSE t

\* char::is_whitespace on the UTF-8 bytes of a scalar: the scalars of the
\* Unicode property White_Space, which are U+0009..U+000D, U+0020, U+0085,
\* U+00A0, U+1680, U+2000..U+200A, U+2028, U+2029, U+202F, U+205F, U+3000
IsWhitespace(c) ==
    IF Len(c) = 1 THEN c[1] \in {9, 10, 11, 12, 13, 32}
    ELSE IF Len(c) = 2 THEN c[1] = 194 /\ c[2] \in {133, 160}
    ELSE IF Len(c) # 3 THEN FALSE
    ELSE IF c[1] = 225 THEN c[2] = 154 /\ c[3] = 128
    ELSE IF c[1] = 226
    THEN \/ c[2] = 128 /\ c[3] \in (128..138) \cup {168, 169, 175}
         \/ c[2] = 129 /\ c[3] = 159
    ELSE c[1] = 227 /\ c[2] = 128 /\ c[3] = 128

\* str::trim_start
RECURSIVE trim_start(_)
trim_start(t) ==
    IF t = <<>> THEN t
    ELSE IF t[1] < 128
    THEN (IF IsWhitespace(<<t[1]>>) THEN trim_start(Tail(t)) ELSE t)
    ELSE IF Len(t) > 1 /\ IsWhitespace(SubSeq(t, 1, 2))
    THEN trim_start(SubSeq(t, 3, Len(t)))
    ELSE IF Len(t) > 2 /\ IsWhitespace(SubSeq(t, 1, 3))
    THEN trim_start(SubSeq(t, 4, Len(t)))
    ELSE t

\* str::trim_end
RECURSIVE trim_end(_)
trim_end(t) ==
    IF t = <<>> THEN t
    ELSE IF t[Len(t)] < 128
    THEN (IF IsWhitespace(<<t[Len(t)]>>) THEN trim_end(SubSeq(t, 1, Len(t) - 1))
          ELSE t)
    ELSE IF Len(t) > 1 /\ IsWhitespace(SubSeq(t, Len(t) - 1, Len(t)))
    THEN trim_end(SubSeq(t, 1, Len(t) - 2))
    ELSE IF Len(t) > 2 /\ IsWhitespace(SubSeq(t, Len(t) - 2, Len(t)))
    THEN trim_end(SubSeq(t, 1, Len(t) - 3))
    ELSE t

\* str::trim
trim(t) == trim_end(trim_start(t))

\* str::rfind("@@"): Option(0-based offset of the last "@@"), looking down
\* from offset i
RECURSIVE RFindFrom(_, _)
RFindFrom(t, i) ==
    IF i < 0 THEN <<>>
    ELSE IF t[i + 1] = At /\ t[i + 2] = At THEN <<i>>
    ELSE RFindFrom(t, i - 1)

rfind(t) == RFindFrom(t, Len(t) - 2)

\* parse_section, from the trimmed header and the offset of its last "@@"
SectionOf(section) == IF section = <<>> THEN <<>> ELSE <<section>>

SectionAfter(trimmed, closing) ==
    IF closing = <<>> THEN <<>>
    ELSE SectionOf(trim(SubSeq(trimmed, closing[1] + 3, Len(trimmed))))

SectionIn(trimmed) == SectionAfter(trimmed, rfind(trimmed))

\* parse_section: Option(section text)
parse_section(header) ==
    IF ~from_utf8_ok(header) THEN <<>>
    ELSE SectionIn(trim_end_matches(header))

\* DiffStats::ZERO
ZERO == [additions |-> 0, deletions |-> 0]

\* A choice of path that prefers the new side whenever it is present.
canonical_path_new_first(status, new_path, old_path) ==
    IF new_path # <<>> THEN new_path[1]
    ELSE IF old_path # <<>> THEN old_path[1]
    ELSE <<>>

\* start_file: the match that picks the file's path (diff.rs:133-137)
canonical_path(status, new_path, old_path) ==
    IF (status = "Deleted" /\ old_path # <<>>) \/ (new_path = <<>> /\ old_path # <<>>)
    THEN old_path[1]
    ELSE IF new_path # <<>> THEN new_path[1]
    ELSE <<>>

\* start_file: a side's path as a String, path.to_string_lossy() mapped over
\* the Option (diff.rs:124-131)
to_string_lossy(path) == [i \in DOMAIN path |-> from_utf8_lossy(path[i])]

\* start_file: the DiffFile it builds from the two Strings (diff.rs:133-152)
DiffFileOf(status, d, at) ==
    [path |-> canonical_path(status, to_string_lossy(d.new_path),
                             to_string_lossy(d.old_path)),
     old_path |-> IF /\ status \in {"Renamed", "Copied"}
                     /\ to_string_lossy(d.old_path) # to_string_lossy(d.new_path)
                  THEN to_string_lossy(d.old_path) ELSE <<>>,
     status |-> status,
     stats |-> ZERO,
     is_binary |-> d.new_binary \/ d.old_binary,
     hunks |-> <<>>,
     at |-> at]

\* The status of a delta, as start_file derives it (diff.rs:123).
StatusOf(d) == convert_status(d.status)

\* DiffBuilder::start_file
start_file(fs, d, at) == Append(fs, DiffFileOf(StatusOf(d), d, at))

\* A flag that keeps the hunks gathered so far.
mark_binary_keep(fs) ==
    IF fs = <<>> THEN fs ELSE [fs EXCEPT ![Len(fs)].is_binary = TRUE]

\* DiffBuilder::mark_binary
mark_binary(fs) ==
    IF fs = <<>> THEN fs
    ELSE [fs EXCEPT ![Len(fs)] = [@ EXCEPT !.is_binary = TRUE, !.hunks = <<>>]]

\* start_hunk: the DiffHunk it builds (diff.rs:170-181)
DiffHunkOf(hunk, at) ==
    [header |-> [base_start |-> hunk.old_start, base_lines |-> hunk.old_lines,
                 head_start |-> hunk.new_start, head_lines |-> hunk.new_lines],
     section |-> parse_section(hunk.header),
     lines |-> <<>>,
     at |-> at]

\* A hunk start that does not look at the binary flag.
start_hunk_any(fs, hunk, at) ==
    IF fs = <<>> THEN fs
    ELSE [fs EXCEPT ![Len(fs)].hunks = Append(@, DiffHunkOf(hunk, at))]

\* DiffBuilder::start_hunk
start_hunk(fs, hunk, at) ==
    IF fs = <<>> THEN fs
    ELSE IF fs[Len(fs)].is_binary THEN fs
    ELSE [fs EXCEPT ![Len(fs)].hunks = Append(@, DiffHunkOf(hunk, at))]

\* push_line: the DiffLine it builds (diff.rs:209-215)
DiffLineOf(kind, line, at) ==
    [kind |-> kind,
     text |-> sanitize_line(line.content),
     base_line |-> line.old_lineno,
     head_line |-> line.new_lineno,
     highlights |-> <<>>,
     at |-> at]

\* push_line: the counters after a line of the kind (diff.rs:203-207)
Counted(stats, kind) ==
    IF kind = "Addition" THEN [stats EXCEPT !.additions = @ + 1]
    ELSE IF kind = "Deletion" THEN [stats EXCEPT !.deletions = @ + 1]
    ELSE stats

\* A store that puts the line in front of the hunk's lines.
StoreLineFirst(file, kind, line, at) ==
    [file EXCEPT !.stats = Counted(@, kind),
                 !.hunks[Len(file.hunks)].lines = <<DiffLineOf(kind, line, at)>> \o @]

\* push_line, on the current file and its last hunk (diff.rs:203-215)
StoreLine(file, kind, line, at) ==
    [file EXCEPT !.stats = Counted(@, kind),
                 !.hunks[Len(file.hunks)].lines = Append(@, DiffLineOf(kind, line, at))]

\* push_line, once the origin is converted (diff.rs:199-215)
PushKind(fs, line, kind, at) ==
    IF kind = <<>> THEN fs
    ELSE [fs EXCEPT ![Len(fs)] = StoreLine(@, kind[1], line, at)]

\* DiffBuilder::push_line
push_line(fs, line, at) ==
    IF fs = <<>> THEN fs
    ELSE IF fs[Len(fs)].is_binary THEN fs
    ELSE IF fs[Len(fs)].hunks = <<>> THEN fs
    ELSE PushKind(fs, line, convert_line_kind(line.origin), at)

\* DiffBuilder::finish
finish(fs) == fs

(***************************************************************************)
(* DiffEngine::diff over a repository.  The repository is what git2 will   *)
(* answer: how the HEAD lookup ends, which later git call fails if it is   *)
(* reached, whether the head commit has a parent, and the callbacks that   *)
(* foreach makes for the comparison.  Every result carries the git calls   *)
(* made to reach it.                                                       *)
(***************************************************************************)
MaxStream == 2   \* callbacks foreach makes for one comparison

\* Repository::head: Ok, (Reference, NotFound), (Reference, UnbornBranch),
\* or any other error
HeadLookups == {"Ok", "NotFound", "UnbornBranch", "Other"}

GitFaults ==
    {"none", "resolve", "peel_to_commit", "parent", "find_commit_head",
     "tree_head", "find_commit_base", "tree_base", "diff_tree_to_tree",
     "find_similar", "foreach"}

GitErr(from, calls) == [kind |-> "Git", from |-> from, calls |-> calls]

\* A HEAD lookup that takes every failure for an absent head.
head_commit_lenient(repo) ==
    IF repo.head # "Ok" THEN [kind |-> "None", calls |-> <<"head">>]
    ELSE IF repo.fault = "resolve"
    THEN [kind |-> "None", calls |-> <<"head", "resolve">>]
    ELSE IF repo.fault = "peel_to_commit"
    THEN [kind |-> "None", calls |-> <<"head", "resolve", "peel_to_commit">>]
    ELSE [kind |-> "Some", calls |-> <<"head", "resolve", "peel_to_commit">>]

\* Repository::head_commit
head_commit(repo) ==
    IF repo.head \in {"NotFound", "UnbornBranch"}
    THEN [kind |-> "None", calls |-> <<"head">>]
    ELSE IF repo.head # "Ok" THEN GitErr("head", <<"head">>)
    ELSE IF repo.fault = "resolve" THEN GitErr("resolve", <<"head", "resolve">>)
    ELSE IF repo.fault = "peel_to_commit"
    THEN GitErr("peel_to_commit", <<"head", "resolve", "peel_to_commit">>)
    ELSE [kind |-> "Some", calls |-> <<"head", "resolve", "peel_to_commit">>]

\* revision_range, once head_commit has answered (repository.rs:147-162)
RangeOf(repo, head) ==
    IF head.kind # "Some" THEN head
    ELSE IF repo.parents = 0
    THEN [kind |-> "Some", range |-> [base |-> <<>>, head |-> "head"],
          calls |-> head.calls]
    ELSE IF repo.fault = "parent" THEN GitErr("parent", head.calls \o <<"parent">>)
    ELSE [kind |-> "Some", range |-> [base |-> <<"parent">>, head |-> "head"],
          calls |-> head.calls \o <<"parent">>]

\* Repository::revision_range
revision_range(repo) == RangeOf(repo, head_commit(repo))

\* the fault that stops a call of commit_tree for the head or the base commit
FaultAt(step, commit) ==
    IF step = "find_commit"
    THEN (IF commit = "head" THEN "find_commit_head" ELSE "find_commit_base")
    ELSE (IF commit = "head" THEN "tree_head" ELSE "tree_base")

\* commit_tree of the head or the base commit, after the calls made so far
commit_tree(repo, commit, calls) ==
    IF repo.fault = FaultAt("find_commit", commit)
    THEN GitErr("find_commit", calls \o <<"find_commit">>)
    ELSE IF repo.fault = FaultAt("tree", commit)
    THEN GitErr("tree", calls \o <<"find_commit", "tree">>)
    ELSE [kind |-> "Ok", calls |-> calls \o <<"find_commit", "tree">>]

\* build_files: one callback of foreach
Callback(fs, event, at) ==
    CASE event.cb = "file" -> start_file(fs, event.arg, at)
      [] event.cb = "binary" -> mark_binary(fs)
      [] event.cb = "hunk" -> start_hunk(fs, event.arg, at)
      [] event.cb = "line" -> push_line(fs, event.arg, at)

\* build_files: the callbacks of foreach from the i-th on
RECURSIVE ForeachFrom(_, _, _)
ForeachFrom(fs, stream, i) ==
    IF i > Len(stream) THEN fs
    ELSE ForeachFrom(Callback(fs, stream[i], i), stream, i + 1)

\* build_files
build_files(repo, calls) ==
    IF repo.fault = "foreach" THEN GitErr("foreach", calls \o <<"foreach">>)
    ELSE [kind |-> "Ok", files |-> finish(ForeachFrom(<<>>, repo.stream, 1)),
          calls |-> calls \o <<"foreach">>]

\* diff, once build_files has answered (diff.rs:68-70)
DiffBuilt(range, built) ==
    IF built.kind # "Ok" THEN built
    ELSE [kind |-> "Ok", range |-> range, files |-> built.files, calls |-> built.calls]

\* diff, from find_similar on (diff.rs:66-70)
DiffSimilar(repo, range, calls) ==
    IF repo.fault = "find_similar"
    THEN GitErr("find_similar", calls \o <<"find_similar">>)
    ELSE DiffBuilt(range, build_files(repo, calls \o <<"find_similar">>))

\* diff, from diff_tree_to_tree on (diff.rs:53-70)
DiffCompared(repo, range, trees) ==
    IF trees.kind # "Ok" THEN trees
    ELSE IF repo.fault = "diff_tree_to_tree"
    THEN GitErr("diff_tree_to_tree", trees.calls \o <<"diff_tree_to_tree">>)
    ELSE DiffSimilar(repo, range, trees.calls \o <<"diff_tree_to_tree">>)

\* diff, from the base tree on (diff.rs:39-70)
DiffBase(repo, range, head_tree) ==
    IF head_tree.kind # "Ok" THEN head_tree
    ELSE IF range.base = <<>> THEN DiffCompared(repo, range, head_tree)
    ELSE DiffCompared(repo, range, commit_tree(repo, "base", head_tree.calls))

\* diff, once revision_range has answered (diff.rs:33-70)
DiffRanged(repo, ranged) ==
    IF ranged.kind = "Git" THEN ranged
    ELSE IF ranged.kind = "None"
    THEN [kind |-> "MissingHeadRevision", calls |-> ranged.calls]
    ELSE DiffBase(repo, ranged.range, commit_tree(repo, "head", ranged.calls))

\* DiffEngine::diff
diff(repo) == DiffRanged(repo, revision_range(repo))

\* the git calls that look up a tree or compare trees
TreeCalls == {"find_commit", "tree", "diff_tree_to_tree", "find_similar", "foreach"}

IdleRepository == [head |-> "UnbornBranch", fault |-> "none", parents |-> 0, stream |-> <<>>]

EngineIdle == repository = IdleRepository /\ outcome = <<>>

(***************************************************************************)
(* The plugin registry and the service in front of it.  A plugin is its    *)
(* id and the instance that was registered: 0 for a built-in, the number   *)
(* of the register_test_plugin call for a test plugin, -1 for one a caller *)
(* registers in a registry of their own.                                   *)
(***************************************************************************)
MaxRegistrations == 3   \* register_test_plugin calls in one run
MaxRegistered == 2      \* register calls on a registry a caller builds

GitOnlyId == "git-only"
AmpId == "amp"

\* the ids test plugins are registered under, one of them a built-in's
TestIds == {"fake", "mock", AmpId}

\* the ids a caller asks the service for
PluginIds == TestIds \cup {GitOnlyId, "missing"}

Plugin(id, inst) == [id |-> id, inst |-> inst]

GitOnlyPlugin == Plugin(GitOnlyId, 0)
AmpPluginDefault == Plugin(AmpId, 0)

\* PluginRegistry::new
NoPlugins == [id \in PluginIds |-> <<>>]

\* PluginRegistry::register
register(plugins, plugin) == [plugins EXCEPT ![plugin.id] = <<plugin>>]

\* PluginRegistry::register_arc
register_arc(plugins, plugin) == [plugins EXCEPT ![plugin.id] = <<plugin>>]

\* with_defaults: the loop over the test plugins, from the i-th on
RECURSIVE RegisterFrom(_, _, _)
RegisterFrom(plugins, tests, i) ==
    IF i > Len(tests) THEN plugins
    ELSE RegisterFrom(register_arc(plugins, tests[i]), tests, i + 1)

\* PluginRegistry::with_defaults, over the test plugin store
with_defaults(tests) ==
    RegisterFrom(register(register(NoPlugins, GitOnlyPlugin), AmpPluginDefault),
                 tests, 1)

\* the plugins a caller registers in a registry of their own: a test double
\* and one that takes the id of a built-in
OwnPlugins == {Plugin(id, -1) : id \in {"fake", GitOnlyId}}

\* registry.register(plugin) for each plugin of a caller, from the i-th on
RECURSIVE RegisterEach(_, _, _)
RegisterEach(plugins, own, i) ==
    IF i > Len(own) THEN plugins
    ELSE RegisterEach(register(plugins, own[i]), own, i + 1)

\* PluginRegistry::get
get(plugins, id) == plugins[id]

\* Vec::retain(|existing| existing.id() != id)
retain(tests, id) == SelectSeq(tests, LAMBDA existing : existing.id # id)

\* iter().position(|plugin| plugin.id() == id), 0 for None
RECURSIVE PositionFrom(_, _, _)
PositionFrom(tests, id, i) ==
    IF i > Len(tests) THEN 0
    ELSE IF tests[i].id = id THEN i
    ELSE PositionFrom(tests, id, i + 1)

position(tests, id) == PositionFrom(tests, id, 1)

\* Vec::remove
remove(tests, i) == SubSeq(tests, 1, i - 1) \o SubSeq(tests, i + 1, Len(tests))

\* register_test_plugin: the store it leaves
register_test_plugin(tests, plugin) == Append(retain(tests, plugin.id), plugin)

\* TestPluginRegistration::drop: the store it leaves
RemoveAt(tests, i) == IF i = 0 THEN tests ELSE remove(tests, i)

drop(tests, id) == RemoveAt(tests, position(tests, id))

\* what a plugin method can return to the service
PluginOutcomes == {[kind |-> "Ok"], [kind |-> "Failure"]}

\* A lookup that falls back to the git-only plugin.
plugin_or_git_only(plugins, plugin_id) ==
    IF get(plugins, plugin_id) = <<>>
    THEN [kind |-> "Ok", value |-> GitOnlyPlugin]
    ELSE [kind |-> "Ok", value |-> get(plugins, plugin_id)[1]]

\* PluginService::plugin
plugin(plugins, plugin_id) ==
    IF get(plugins, plugin_id) = <<>>
    THEN [kind |-> "PluginNotRegistered", plugin |-> plugin_id]
    ELSE [kind |-> "Ok", value |-> get(plugins, plugin_id)[1]]

\* PluginService::invoke
invoke(plugin_id, result) ==
    IF result.kind = "Ok" THEN result
    ELSE [kind |-> "Plugin", plugin |-> plugin_id, source |-> result]

\* a service method once the lookup is made: `?`, then the method, then invoke
Invoked(found, plugin_id, method, result) ==
    IF found.kind # "Ok" THEN [result |-> found, invoked |-> <<>>]
    ELSE [result |-> invoke(plugin_id, result),
          invoked |-> <<[plugin |-> found.value, method |-> method]>>]

\* PluginService::list_threads, attach, post_review, poll_revision
Dispatch(plugins, plugin_id, method, result) ==
    Invoked(plugin(plugins, plugin_id), plugin_id, method, result)

ServiceMethods == {"list_threads", "attach", "post_review", "poll_revision"}

NoServed ==
    [op |-> "none", plugin_id |-> "missing",
     result |-> [kind |-> "Ok"], invoked |-> <<>>]

PluginIdle ==
    /\ store = <<>>
    /\ guards = {}
    /\ registrations = 0
    /\ registry = NoPlugins
    /\ served = NoServed

(***************************************************************************)
(* AmpPlugin: sessions, the revision a post_review starts, and the thread  *)
(* that runs the CLI for it.  A revision is an entry of a heap: the        *)
(* session's slot and the thread both point at it, as the two Arcs of the  *)
(* progress do.  Texts are their UTF-8 bytes.                              *)
(***************************************************************************)
MaxCalls == 3   \* attach and post_review calls on one AmpPlugin that get
                \* as far as a session id or a spawned thread

\* "amp-session"
SESSION_PREFIX ==
    <<97, 109, 112, 45, 115, 101, 115, 115, 105, 111, 110>>

\* "Amp processing started"
ProcessingStarted ==
    <<65, 109, 112, 32, 112, 114, 111, 99, 101, 115, 115, 105, 110, 103,
    32, 115, 116, 97, 114, 116, 101, 100>>

\* "No revision in progress"
NoRevision ==
    <<78, 111, 32, 114, 101, 118, 105, 115, 105, 111, 110, 32, 105, 110,
    32, 112, 114, 111, 103, 114, 101, 115, 115>>

\* "Unknown Amp session"
UnknownSession ==
    <<85, 110, 107, 110, 111, 119, 110, 32, 65, 109, 112, 32, 115, 101,
    115, 115, 105, 111, 110>>

\* "Amp review submitted"
ReviewSubmitted ==
    <<65, 109, 112, 32, 114, 101, 118, 105, 101, 119, 32, 115, 117, 98,
    109, 105, 116, 116, 101, 100>>

\* "Amp CLI failed with status 1: boom"
FailedStatus ==
    <<65, 109, 112, 32, 67, 76, 73, 32, 102, 97, 105, 108, 101, 100, 32,
    119, 105, 116, 104, 32, 115, 116, 97, 116, 117, 115, 32, 49, 58, 32,
    98, 111, 111, 109>>

\* "Amp CLI did not return a thread id"
NoThreadId ==
    <<65, 109, 112, 32, 67, 76, 73, 32, 100, 105, 100, 32, 110, 111, 116,
    32, 114, 101, 116, 117, 114, 110, 32, 97, 32, 116, 104, 114, 101, 97,
    100, 32, 105, 100>>

\* "T-sample", a thread id a caller attaches to
ThreadSample ==
    <<84, 45, 115, 97, 109, 112, 108, 101>>

\* "T-created\n", what `threads new` prints
CreatedStdout ==
    <<84, 45, 99, 114, 101, 97, 116, 101, 100, 10>>

\* " done\n", what `threads continue` prints
DoneStdout ==
    <<32, 100, 111, 110, 101, 10>>

\* PluginError::message and its Display, "{message}"
Failure(message) == [kind |-> "Failure", message |-> message]

to_string(err) == err.message

OkValue(value) == [kind |-> "Ok", value |-> value]

\* what AmpCli::run returns for `threads continue`
ContinueRuns ==
    {OkValue([stdout |-> DoneStdout]), Failure(FailedStatus)}

\* what AmpCli::run returns for `threads new`
CreateRuns ==
    {OkValue([stdout |-> CreatedStdout]), OkValue([stdout |-> <<NewLine>>]),
     Failure(FailedStatus)}

\* format!("{n}") of a session counter
RECURSIVE Decimal(_)
Decimal(n) == IF n < 10 THEN <<48 + n>> ELSE Decimal(n \div 10) \o <<48 + (n % 10)>>

\* format!("{SESSION_PREFIX}-{counter}")
SessionId(n) == SESSION_PREFIX \o <<45>> \o Decimal(n)

\* ThreadRef::new(id, None)
ThreadRef(id) == [id |-> id, title |-> <<>>]

\* AmpCli::create_thread, from the trimmed output (amp.rs:63-67)
ThreadIdOf(id) == IF id = <<>> THEN Failure(NoThreadId) ELSE OkValue(id)

\* AmpCli::create_thread, over what run returned
create_thread(ran) ==
    IF ran.kind # "Ok" THEN ran ELSE ThreadIdOf(trim(ran.value.stdout))

\* A counter that is read without the add.
next_session_id_load(n) == [id |-> SessionId(n), counter |-> n]

\* AmpPlugin::next_session_id: fetch_add returns the value before the add
next_session_id(n) == [id |-> SessionId(n), counter |-> n + 1]

\* AmpSession::new
AmpSession(thread) == [thread |-> thread, revision |-> <<>>]

\* HashMap::insert
Inserted(map, key, value) ==
    [k \in DOMAIN map \cup {key} |-> IF k = key THEN value ELSE map[k]]

NoSessions == [k \in {} |-> AmpSession(ThreadRef(<<>>))]

\* PluginSession::new(self.id(), session_id, Some(thread))
PluginSession(session_id, thread) ==
    [plugin_id |-> AmpId, session_id |-> session_id, thread |-> <<thread>>]

\* A lookup that answers an id it does not hold with a fresh session.
session_or_new(map, id) ==
    IF id \in DOMAIN map THEN OkValue(map[id])
    ELSE OkValue(AmpSession(ThreadRef(<<>>)))

\* AmpPlugin::session
session(map, id) ==
    IF id \in DOMAIN map THEN OkValue(map[id]) ELSE Failure(UnknownSession)

RevisionProgress(state, detail) == [state |-> state, detail |-> <<detail>>]

\* post_review: the revision it starts, its thread not yet back from the CLI
Started(session_id) ==
    [session_id |-> session_id,
     progress |-> RevisionProgress("InProgress", ProcessingStarted),
     task |-> "running", ran |-> <<>>]

\* A thread that reports every return of the CLI as a completion.
FinishedCompleted(ran) ==
    IF ran.kind = "Ok"
    THEN RevisionProgress("Completed", trim(ran.value.stdout))
    ELSE RevisionProgress("Completed", to_string(ran))

\* post_review: what the thread writes once continue_thread is back
\* (amp.rs:295-304)
Finished(ran) ==
    IF ran.kind = "Ok"
    THEN RevisionProgress("Completed", trim(ran.value.stdout))
    ELSE RevisionProgress("Failed", to_string(ran))

\* post_review: what it returns once the slot is set (amp.rs:315-319)
SubmissionResult(thread_id) ==
    [revision_started |-> TRUE, reference |-> <<thread_id>>,
     message |-> <<ReviewSubmitted>>]

\* A poll that reports a revision still in progress as no revision.
PolledPendingInProgress(heap, found) ==
    IF found.kind # "Ok" THEN found
    ELSE IF found.value.revision = <<>>
    THEN OkValue(RevisionProgress("Pending", NoRevision))
    ELSE IF heap[found.value.revision[1]].progress.state = "InProgress"
    THEN OkValue(RevisionProgress("Pending", NoRevision))
    ELSE OkValue(heap[found.value.revision[1]].progress)

\* poll_revision, once the session is found (amp.rs:324-339)
Polled(heap, found) ==
    IF found.kind # "Ok" THEN found
    ELSE IF found.value.revision = <<>>
    THEN OkValue(RevisionProgress("Pending", NoRevision))
    ELSE OkValue(heap[found.value.revision[1]].progress)

\* AmpPlugin::poll_revision
poll_revision(map, heap, session_id) == Polled(heap, session(map, session_id))

Reply(op, session_id, result) ==
    [op |-> op, session_id |-> session_id, result |-> result]

NoReply == Reply("none", <<>>, OkValue(<<>>))

AmpIdle ==
    /\ sessions = NoSessions
    /\ counter = 1
    /\ attaching = {}
    /\ posting = {}
    /\ revisions = <<>>
    /\ reply = NoReply

(***************************************************************************)
(* AmpCli::run (rust/prism_plugins/src/amp.rs): the call, the child        *)
(* process it spawns, the three pipes between them and the two reader      *)
(* threads.  A pipe holds at most MaxPipe bytes; a write to a full pipe    *)
(* and a read of an empty pipe whose write end is open block.              *)
(***************************************************************************)
MaxPipe == 2       \* bytes a pipe holds before a write to it blocks

\* "Amp CLI timed out after 60s"
TimedOut ==
    <<65, 109, 112, 32, 67, 76, 73, 32, 116, 105, 109, 101, 100, 32, 111,
    117, 116, 32, 97, 102, 116, 101, 114, 32, 54, 48, 115>>

\* "Amp CLI failed with status "
FailedWithStatus ==
    <<65, 109, 112, 32, 67, 76, 73, 32, 102, 97, 105, 108, 101, 100, 32,
    119, 105, 116, 104, 32, 115, 116, 97, 116, 117, 115, 32>>

\* "terminated"
Terminated ==
    <<116, 101, 114, 109, 105, 110, 97, 116, 101, 100>>

\* "failed to write to amp stdin: Broken pipe (os error 32)"
WriteFailed ==
    <<102, 97, 105, 108, 101, 100, 32, 116, 111, 32, 119, 114, 105, 116,
    101, 32, 116, 111, 32, 97, 109, 112, 32, 115, 116, 100, 105, 110, 58,
    32, 66, 114, 111, 107, 101, 110, 32, 112, 105, 112, 101, 32, 40, 111,
    115, 32, 101, 114, 114, 111, 114, 32, 51, 50, 41>>

\* "failed to spawn amp CLI: No such file or directory (os error 2)"
SpawnFailed ==
    <<102, 97, 105, 108, 101, 100, 32, 116, 111, 32, 115, 112, 97, 119,
    110, 32, 97, 109, 112, 32, 67, 76, 73, 58, 32, 78, 111, 32, 115, 117,
    99, 104, 32, 102, 105, 108, 101, 32, 111, 114, 32, 100, 105, 114, 101,
    99, 116, 111, 114, 121, 32, 40, 111, 115, 32, 101, 114, 114, 111, 114,
    32, 50, 41>>

OutputStreams == {"stdout", "stderr"}

\* join_reader, once the reader thread has returned its bytes
join_reader(bytes) == from_utf8_lossy(bytes)

ProcessOutput(stdout, stderr) == [stdout |-> stdout, stderr |-> stderr]

\* status.code() as a string, "terminated" for a process a signal ended
StatusCode(status) == IF status = "exit1" THEN Decimal(1) ELSE Terminated

\* run, from the exit status and the output of the readers (amp.rs:138-149)
Returned(status, stdout, stderr) ==
    IF status # "exit0"
    THEN Failure(FailedWithStatus \o StatusCode(status) \o <<58, 32>> \o trim(stderr))
    ELSE OkValue(ProcessOutput(stdout, stderr))

\* what the child does: whether the binary is there to spawn; whether it
\* reads its stdin to the end, before or after it writes; what it writes to
\* stdout and to stderr; how it ends; and whether it leaves a process of its
\* own behind that holds the pipes it inherited
ChildPlan(found, reads, first, out, err, ends, forks) ==
    [found |-> found, reads |-> reads, first |-> first, out |-> out,
     err |-> err, ends |-> ends, forks |-> forks]

NoChild == ChildPlan(FALSE, FALSE, "read", <<>>, <<>>, "never", FALSE)

\* the stages of the child, those with nothing to do left out
Stages(plan) ==
    SelectSeq(IF plan.first = "read"
              THEN <<"read", "stdout", "stderr", "end">>
              ELSE <<"stdout", "stderr", "read", "end">>,
              LAMBDA st : \/ st = "end"
                          \/ st = "read" /\ plan.reads
                          \/ st = "stdout" /\ plan.out # <<>>
                          \/ st = "stderr" /\ plan.err # <<>>)

StageAfter(plan, stage) ==
    (CHOOSE i \in 1..Len(Stages(plan)) : Stages(plan)[i] = stage) + 1

NextStage(plan, stage) == Stages(plan)[StageAfter(plan, stage)]

\* the first n bytes a pipe of room for n takes of the bytes to write
Chunk(bytes, room) ==
    SubSeq(bytes, 1, IF Len(bytes) < room THEN Len(bytes) ELSE room)

Rest(bytes, room) ==
    SubSeq(bytes, (IF Len(bytes) < room THEN Len(bytes) ELSE room) + 1, Len(bytes))

NoRun ==
    [pc |-> "idle", payload |-> <<>>, plan |-> NoChild, left |-> <<>>,
     stdin |-> <<>>, writer |-> FALSE,
     pipes |-> [st \in OutputStreams |-> <<>>],
     todo |-> [st \in OutputStreams |-> <<>>],
     readers |-> [st \in OutputStreams |-> "none"],
     buffers |-> [st \in OutputStreams |-> <<>>],
     stage |-> "none", status |-> <<>>, result |-> <<>>]

RunIdle == run = NoRun

ServiceIdle == EngineIdle /\ PluginIdle /\ AmpIdle /\ RunIdle

(***************************************************************************)
(* The state machine of a caller that assembles a suggestion and hands it  *)
(* to dry_run or apply.                                                    *)
(***************************************************************************)
NoCall ==
    [op |-> "none", result |-> Result("Ok", <<>>), previews |-> <<>>,
     plan |-> <<>>, reads |-> <<>>, offsetsFor |-> {}, writeCalls |-> <<>>,
     stageCalls |-> <<>>, fault |-> NoFault, preTree |-> <<>>, preIndex |-> <<>>]

IdleLocation ==
    [path |-> PathA, side |-> "Head", start |-> Pos(1, 1), end |-> Pos(1, 1)]

ConvIdle ==
    text = <<>> /\ location = IdleLocation /\ extras = <<>> /\ converted = <<>>

\* a DiffBuilder::default() no callback has reached
NoEvent == [op |-> "none", origin |-> "", before |-> <<>>]

IdleDelta ==
    [status |-> "Unmodified", old_path |-> <<>>, new_path |-> <<>>,
     old_binary |-> FALSE, new_binary |-> FALSE]

DiffIdle == files = <<>> /\ events = 0 /\ last = NoEvent /\ delta = IdleDelta

ApplyIdle ==
    /\ tree = TreeOne
    /\ index = TreeOne
    /\ memIndex = TreeOne
    /\ suggestion = <<>>
    /\ call = NoCall

Init ==
    /\ tree \in InitialTrees
    /\ index = tree
    /\ memIndex = tree
    /\ suggestion = <<>>
    /\ call = NoCall
    /\ ConvIdle
    /\ DiffIdle
    /\ ServiceIdle

\* suggestion.edits.push(TextEdit::new(..))
PushEdit(e) ==
    /\ call.op = "none"
    /\ Len(suggestion) < MaxEdits
    /\ suggestion' = Append(suggestion, e)
    /\ UNCHANGED <<tree, index, memIndex, call>>
    /\ UNCHANGED convVars
    /\ UNCHANGED serviceVars
    /\ UNCHANGED diffVars

\* the state a dry_run call leaves
DryRunReturn(out) ==
    /\ tree' = out.tree
    /\ call' = [NoCall EXCEPT !.op = "dry_run", !.result = out.result,
                   !.previews = out.previews, !.plan = out.plan,
                   !.reads = out.reads, !.offsetsFor = out.offsetsFor,
                   !.preTree = tree, !.preIndex = index]

DryRun ==
    /\ call.op = "none"
    /\ DryRunReturn(dry_run(RepoRoot, tree, suggestion))
    /\ UNCHANGED <<index, memIndex, suggestion>>
    /\ UNCHANGED convVars
    /\ UNCHANGED serviceVars
    /\ UNCHANGED diffVars

\* the state an apply call leaves
ApplyReturn(out, fault) ==
    /\ tree' = out.tree
    /\ index' = out.index
    /\ memIndex' = out.mem
    /\ call' = [NoCall EXCEPT !.op = "apply", !.result = out.result,
                   !.plan = out.plan, !.reads = out.reads,
                   !.offsetsFor = out.offsetsFor,
                   !.writeCalls = out.writeCalls,
                   !.stageCalls = out.stageCalls, !.fault = fault,
                   !.preTree = tree, !.preIndex = index]

Apply(fault) ==
    /\ call.op = "none"
    /\ ApplyReturn(apply(RepoRoot, tree, index, memIndex, suggestion, fault), fault)
    /\ UNCHANGED suggestion
    /\ UNCHANGED convVars
    /\ UNCHANGED serviceVars
    /\ UNCHANGED diffVars

\* apply under every behaviour of the file system and of libgit2
ApplyCall ==
    LET faults == Faults(Changed(compute_changes(RepoRoot, tree, suggestion).changes))
    IN  \E fault \in faults : Apply(fault)

Next ==
    \/ \E e \in Edits : PushEdit(e)
    \/ DryRun
    \/ ApplyCall

Spec == Init /\ [][Next]_vars

(***************************************************************************)
(* The converter on its own: every text, every range of positions, and     *)
(* build_change of the edit of that range, alone or followed by one more   *)
(* edit of the same text.                                                  *)
(***************************************************************************)
HeadRange(s, e) == [path |-> PathA, side |-> "Head", start |-> s, end |-> e]

ExtraLocations ==
    {HeadRange(Pos(1, 1), Pos(1, 1)), HeadRange(Pos(1, 2), Pos(1, 2)),
     HeadRange(Pos(1, 1), Pos(1, 2)), HeadRange(Pos(2, 1), Pos(2, 1)),
     HeadRange(Pos(1, 2), Pos(2, 1))}

InitConvert ==
    /\ ApplyIdle
    /\ text \in TextsUpTo(MaxScalars)
    /\ location \in {HeadRange(s, e) : s \in Positions, e \in Positions}
    /\ extras \in {<<>>} \cup {<<r>> : r \in ExtraLocations}
    /\ converted = <<>>
    /\ DiffIdle
    /\ ServiceIdle

\* the edits that replace each range by "é"
EditsAt(ranges) ==
    [i \in 1..Len(ranges) |-> [location |-> ranges[i], replacement |-> EAcute]]

\* OffsetConverter::new(text), offset of both positions, span(location), and
\* build_change of the edits in a file holding the text.
Convert ==
    /\ converted = <<>>
    /\ converted' =
          <<[start |-> offset(text, location.start),
             end |-> offset(text, location.end),
             span |-> span(text, location),
             change |-> build_change(RepoRoot, [f \in FileNames |-> <<text>>],
                                     EditsAt(<<location>> \o extras), PathA,
                                     [i \in 1..(1 + Len(extras)) |-> i])]>>
    /\ UNCHANGED <<text, location, extras>>
    /\ UNCHANGED applyVars
    /\ UNCHANGED diffVars
    /\ UNCHANGED serviceVars

NextConvert == Convert

SpecConvert == InitConvert /\ [][NextConvert]_vars

(***************************************************************************)
(* The planner on its own: build_change of up to 1 + MaxExtras edits of    *)
(* one file, every edit a range of line 1 of "a\u{e9}b", edit i replacing  *)
(* its range by the digit i.                                               *)
(***************************************************************************)
PlanText == <<97>> \o EAcute \o <<98>>

PlanRanges == {HeadRange(Pos(1, c), Pos(1, d)) : c \in 1..4, d \in 1..4}

RECURSIVE SeqsUpTo(_, _)
SeqsUpTo(S, n) ==
    IF n = 0 THEN {<<>>}
    ELSE SeqsUpTo(S, n - 1)
         \cup {Append(q, x) : q \in {p \in SeqsUpTo(S, n - 1) : Len(p) = n - 1}, x \in S}

InitPlan ==
    /\ ApplyIdle
    /\ DiffIdle
    /\ ServiceIdle
    /\ text = PlanText
    /\ location \in PlanRanges
    /\ extras \in SeqsUpTo(PlanRanges, MaxExtras)
    /\ converted = <<>>

\* the edits that replace range i by the digit i
EditsNumbered(ranges) ==
    [i \in 1..Len(ranges) |-> [location |-> ranges[i], replacement |-> <<48 + i>>]]

\* build_change of the edits, in the order listed, in a file holding the text
Plan ==
    /\ converted = <<>>
    /\ converted' =
          <<[start |-> offset(text, location.start),
             end |-> offset(text, location.end),
             span |-> span(text, location),
             change |-> build_change(RepoRoot, [f \in FileNames |-> <<text>>],
                                     EditsNumbered(<<location>> \o extras), PathA,
                                     [i \in 1..(1 + Len(extras)) |-> i])]>>
    /\ UNCHANGED <<text, location, extras>>
    /\ UNCHANGED applyVars
    /\ UNCHANGED diffVars
    /\ UNCHANGED serviceVars

NextPlan == Plan

SpecPlan == InitPlan /\ [][NextPlan]_vars

(***************************************************************************)
(* The diff builder under the callbacks of diff.foreach (build_files), and *)
(* start_file on its own over every delta.                                 *)
(***************************************************************************)
DeltaKinds ==
    {"Unmodified", "Added", "Deleted", "Modified", "Renamed", "Copied",
     "Ignored", "Untracked", "Typechange", "Unreadable", "Conflicted"}

Delta(status, old_path, new_path, old_binary, new_binary) ==
    [status |-> status, old_path |-> old_path, new_path |-> new_path,
     old_binary |-> old_binary, new_binary |-> new_binary]

\* two names that are not UTF-8 and read the same once made Strings: "b"
\* followed by the byte FF, and by the byte FE
PathNotUtf8 == <<98, 255>>
PathNotUtf8Other == <<98, 254>>

\* a side's path: absent, a name that is UTF-8 or one that is not
SidePaths == {<<>>, <<PathA>>, <<PathB>>, <<PathNotUtf8>>, <<PathNotUtf8Other>>}

\* every delta over these paths, either side's path present or absent
AllDeltas ==
    {Delta(st, o, n, ob, nb) :
        st \in DeltaKinds, o \in SidePaths, n \in SidePaths,
        ob \in BOOLEAN, nb \in BOOLEAN}

\* the deltas of the callback stream: a modified text file, a renamed text
\* file, and a file whose new side is flagged binary
StreamDeltas ==
    {Delta("Modified", <<PathA>>, <<PathA>>, FALSE, FALSE),
     Delta("Renamed", <<PathA>>, <<PathB>>, FALSE, FALSE),
     Delta("Modified", <<PathB>>, <<PathB>>, FALSE, TRUE)}

\* "@@ -1 +1,2 @@"
HunkHeaderText == <<64, 64, 32, 45, 49, 32, 43, 49, 44, 50, 32, 64, 64>>

\* the hunks git2 reports: a header with a section text and one without
Hunks ==
    {[old_start |-> 1, old_lines |-> 1, new_start |-> 1, new_lines |-> 2,
      header |-> HunkHeaderText \o <<32, 102, NewLine>>],
     [old_start |-> 1, old_lines |-> 1, new_start |-> 1, new_lines |-> 2,
      header |-> HunkHeaderText \o <<NewLine>>]}

DiffLineTypes ==
    {"Context", "Addition", "Deletion", "ContextEOFNL", "AddEOFNL",
     "DeleteEOFNL", "FileHeader", "HunkHeader", "Binary"}

\* The line numbers libgit2 hands to the line callback with each origin: a
\* context line has both, an addition and the marker of a newline deleted at
\* the end of the file have the new one, a deletion and the marker of a
\* newline added have the old one, and the structural origins have none.
old_lineno(origin) ==
    IF origin \in {"Context", "ContextEOFNL", "Deletion", "AddEOFNL"}
    THEN <<1>> ELSE <<>>

new_lineno(origin) ==
    IF origin \in {"Context", "ContextEOFNL", "Addition", "DeleteEOFNL"}
    THEN <<1>> ELSE <<>>

\* the git2::DiffLine of an origin, its content "a\n"
Line(origin) ==
    [origin |-> origin, content |-> <<97, NewLine>>,
     old_lineno |-> old_lineno(origin), new_lineno |-> new_lineno(origin)]

Lines == {Line(origin) : origin \in DiffLineTypes}

InitDiff ==
    /\ ApplyIdle
    /\ ConvIdle
    /\ DiffIdle
    /\ ServiceIdle

Event(op, origin) == [op |-> op, origin |-> origin, before |-> files]

\* file_cb: builder.start_file(&delta)
FileCb(d) ==
    /\ events < MaxEvents
    /\ files' = start_file(files, d, events + 1)
    /\ events' = events + 1
    /\ last' = Event("start_file", "")
    /\ delta' = d
    /\ UNCHANGED applyVars
    /\ UNCHANGED convVars
    /\ UNCHANGED serviceVars

\* binary_cb: builder.mark_binary()
BinaryCb ==
    /\ events < MaxEvents
    /\ files' = mark_binary(files)
    /\ events' = events + 1
    /\ last' = Event("mark_binary", "")
    /\ UNCHANGED delta
    /\ UNCHANGED applyVars
    /\ UNCHANGED convVars
    /\ UNCHANGED serviceVars

\* hunk_cb: builder.start_hunk(&hunk)
HunkCb(hunk) ==
    /\ events < MaxEvents
    /\ files' = start_hunk(files, hunk, events + 1)
    /\ events' = events + 1
    /\ last' = Event("start_hunk", "")
    /\ UNCHANGED delta
    /\ UNCHANGED applyVars
    /\ UNCHANGED convVars
    /\ UNCHANGED serviceVars

\* line_cb: builder.push_line(&line)
LineCb(line) ==
    /\ events < MaxEvents
    /\ files' = push_line(files, line, events + 1)
    /\ events' = events + 1
    /\ last' = Event("push_line", line.origin)
    /\ UNCHANGED delta
    /\ UNCHANGED applyVars
    /\ UNCHANGED convVars
    /\ UNCHANGED serviceVars

NextDiff ==
    \/ \E d \in StreamDeltas : FileCb(d)
    \/ BinaryCb
    \/ \E hunk \in Hunks : HunkCb(hunk)
    \/ \E line \in Lines : LineCb(line)

SpecDiff == InitDiff /\ [][NextDiff]_vars

InitDelta ==
    /\ ApplyIdle
    /\ ConvIdle
    /\ ServiceIdle
    /\ files = <<>>
    /\ events = 0
    /\ last = NoEvent
    /\ delta \in AllDeltas

\* start_file of the delta, on a builder no callback has reached
StartFile ==
    /\ events = 0
    /\ FileCb(delta)

NextDelta == StartFile

SpecDelta == InitDelta /\ [][NextDelta]_vars

(***************************************************************************)
(* The state machine of one DiffEngine::diff call on a repository.         *)
(***************************************************************************)
StreamEvents ==
    {[cb |-> "file", arg |-> d] : d \in StreamDeltas}
        \cup {[cb |-> "binary", arg |-> <<>>]}
        \cup {[cb |-> "hunk", arg |-> hunk] : hunk \in Hunks}
        \cup {[cb |-> "line", arg |-> line] : line \in Lines}

Streams == UNION {[1..n -> StreamEvents] : n \in 0..MaxStream}

\* the repositories: one whose HEAD lookup fails has nothing further, and
\* one whose HEAD does not reach a commit has no parent and no comparison
Repositories ==
    {r \in [head : HeadLookups, fault : GitFaults, parents : 0..1, stream : Streams] :
        /\ r.head # "Ok" => r.fault = "none"
        /\ (r.head # "Ok" \/ r.fault \in {"resolve", "peel_to_commit"})
              => r.parents = 0 /\ r.stream = <<>>
        /\ r.parents = 0 => r.fault \notin {"parent", "find_commit_base", "tree_base"}}

InitEngine ==
    /\ ApplyIdle
    /\ ConvIdle
    /\ DiffIdle
    /\ PluginIdle
    /\ AmpIdle
    /\ RunIdle
    /\ repository \in Repositories
    /\ outcome = <<>>

\* DiffEngine::new().diff(&repository)
Diff ==
    /\ outcome = <<>>
    /\ outcome' = <<diff(repository)>>
    /\ UNCHANGED repository
    /\ UNCHANGED <<applyVars, convVars, diffVars, pluginVars, ampVars, runVars>>

NextEngine == Diff

SpecEngine == InitEngine /\ [][NextEngine]_vars

(***************************************************************************)
(* The state machine of tests that register plugins, drop the guards,      *)
(* build services over with_defaults or over a registry of their own, and  *)
(* call them.                                                              *)
(***************************************************************************)
InitPlugins ==
    /\ ApplyIdle
    /\ ConvIdle
    /\ DiffIdle
    /\ EngineIdle
    /\ PluginIdle
    /\ AmpIdle
    /\ RunIdle

\* register_test_plugin(plugin), the guard kept
RegisterTestPlugin(id) ==
    /\ registrations < MaxRegistrations
    /\ registrations' = registrations + 1
    /\ store' = register_test_plugin(store, Plugin(id, registrations + 1))
    /\ guards' = guards \cup {Plugin(id, registrations + 1)}
    /\ UNCHANGED <<registry, served>>
    /\ UNCHANGED <<applyVars, convVars, diffVars, engineVars, ampVars, runVars>>

\* a guard goes out of scope
DropGuard(guard) ==
    /\ store' = drop(store, guard.id)
    /\ guards' = guards \ {guard}
    /\ UNCHANGED <<registrations, registry, served>>
    /\ UNCHANGED <<applyVars, convVars, diffVars, engineVars, ampVars, runVars>>

\* PluginService::new(PluginRegistry::with_defaults())
NewService ==
    /\ registry' = with_defaults(store)
    /\ served' = NoServed
    /\ UNCHANGED <<store, guards, registrations>>
    /\ UNCHANGED <<applyVars, convVars, diffVars, engineVars, ampVars, runVars>>

\* PluginService::new(registry), the registry made by PluginRegistry::new()
\* and the caller's register calls, in their order
NewServiceOf(own) ==
    /\ registry' = RegisterEach(NoPlugins, own, 1)
    /\ served' = NoServed
    /\ UNCHANGED <<store, guards, registrations>>
    /\ UNCHANGED <<applyVars, convVars, diffVars, engineVars, ampVars, runVars>>

Served(method, plugin_id, done) ==
    [op |-> method, plugin_id |-> plugin_id,
     result |-> done.result, invoked |-> done.invoked]

\* one of the four service methods, for a plugin id or a session of it
Serve(method, plugin_id, result) ==
    /\ served' = Served(method, plugin_id,
                         Dispatch(registry, plugin_id, method, result))
    /\ UNCHANGED <<store, guards, registrations, registry>>
    /\ UNCHANGED <<applyVars, convVars, diffVars, engineVars, ampVars, runVars>>

NextPlugins ==
    \/ \E id \in TestIds : RegisterTestPlugin(id)
    \/ \E guard \in guards : DropGuard(guard)
    \/ NewService
    \/ \E n \in 0..MaxRegistered : \E own \in [1..n -> OwnPlugins] : NewServiceOf(own)
    \/ \E method \in ServiceMethods, plugin_id \in PluginIds, result \in PluginOutcomes :
          Serve(method, plugin_id, result)

SpecPlugins == InitPlugins /\ [][NextPlugins]_vars

(***************************************************************************)
(* The state machine of callers of one AmpPlugin and of the threads its    *)
(* post_review calls spawn.  attach and post_review are two steps each, so *)
(* that calls overlap; the thread of a revision is two steps, the return   *)
(* of the CLI and the write of the progress.                               *)
(***************************************************************************)
\* the session ids callers pass: the ones attach can hand out, and one no
\* attach hands out
SessionIds == {SessionId(n) : n \in 0..(MaxCalls - 1)}

InitAmp ==
    /\ ApplyIdle
    /\ ConvIdle
    /\ DiffIdle
    /\ EngineIdle
    /\ PluginIdle
    /\ AmpIdle
    /\ RunIdle

AmpFrame == UNCHANGED <<applyVars, convVars, diffVars, engineVars, pluginVars, runVars>>

\* the session ids handed out and the threads spawned so far
Calls(n, heap) == (n - 1) + Len(heap)

\* attach, up to next_session_id, once the thread is known (amp.rs:260-261)
AttachTake(thread, taken) ==
    /\ counter' = taken.counter
    /\ attaching' = attaching \cup {[session_id |-> taken.id, thread |-> thread]}
    /\ UNCHANGED <<sessions, posting, revisions, reply>>
    /\ AmpFrame

\* attach(Some(id)), up to next_session_id
AttachThread(id) ==
    /\ Calls(counter, revisions) < MaxCalls
    /\ AttachTake(ThreadRef(id), next_session_id(counter))

\* attach(None) with a thread created, up to next_session_id
AttachCreated(created) ==
    /\ Calls(counter, revisions) < MaxCalls
    /\ created.kind = "Ok"
    /\ AttachTake(ThreadRef(created.value), next_session_id(counter))

\* attach(None) whose create_thread fails
AttachFailed(created) ==
    /\ created.kind # "Ok"
    /\ reply' = Reply("attach", <<>>, created)
    /\ UNCHANGED <<sessions, counter, attaching, posting, revisions>>
    /\ AmpFrame

\* attach, from sessions.insert to its return
AttachInsert(pending) ==
    /\ sessions' = Inserted(sessions, pending.session_id, AmpSession(pending.thread))
    /\ attaching' = attaching \ {pending}
    /\ reply' = Reply("attach", pending.session_id,
                      OkValue(PluginSession(pending.session_id, pending.thread)))
    /\ UNCHANGED <<counter, posting, revisions>>
    /\ AmpFrame

\* post_review for a session id the plugin does not hold
PostUnknown(session_id) ==
    /\ session(sessions, session_id).kind # "Ok"
    /\ reply' = Reply("post_review", session_id, session(sessions, session_id))
    /\ UNCHANGED <<sessions, counter, attaching, posting, revisions>>
    /\ AmpFrame

\* post_review, up to thread::spawn
PostSpawn(session_id) ==
    /\ session(sessions, session_id).kind = "Ok"
    /\ Calls(counter, revisions) < MaxCalls
    /\ revisions' = Append(revisions, Started(session_id))
    /\ posting' = posting \cup {[session_id |-> session_id,
                                  revision |-> Len(revisions) + 1]}
    /\ UNCHANGED <<sessions, counter, attaching, reply>>
    /\ AmpFrame

\* post_review, from the revision slot to its return
PostStore(pending) ==
    /\ sessions' = [sessions EXCEPT ![pending.session_id].revision = <<pending.revision>>]
    /\ posting' = posting \ {pending}
    /\ reply' = Reply("post_review", pending.session_id,
                      OkValue(SubmissionResult(sessions[pending.session_id].thread.id)))
    /\ UNCHANGED <<counter, attaching, revisions>>
    /\ AmpFrame

\* the thread of a revision: continue_thread returns
CliReturn(r, ran) ==
    /\ revisions[r].task = "running"
    /\ revisions' = [revisions EXCEPT ![r].task = "returned", ![r].ran = <<ran>>]
    /\ UNCHANGED <<sessions, counter, attaching, posting, reply>>
    /\ AmpFrame

\* A thread that writes into the progress of the revision its session's
\* slot holds, as if the session had one progress for all its revisions.
TaskWriteShared(r) ==
    /\ r <= Len(revisions)
    /\ revisions[r].task = "returned"
    /\ revisions' =
          [revisions EXCEPT
              ![r].task = "done",
              ![IF sessions[revisions[r].session_id].revision = <<>> THEN r
                ELSE sessions[revisions[r].session_id].revision[1]].progress =
                  Finished(revisions[r].ran[1])]
    /\ UNCHANGED <<sessions, counter, attaching, posting, reply>>
    /\ AmpFrame

\* the thread of a revision: it locks the progress and writes it
TaskWrite(r) ==
    /\ r <= Len(revisions)
    /\ revisions[r].task = "returned"
    /\ UNCHANGED <<sessions, counter, attaching, posting, reply>>
    /\ AmpFrame
    /\ revisions' = [revisions EXCEPT ![r].task = "done",
                                      ![r].progress = Finished(revisions[r].ran[1])]

\* poll_revision
Poll(session_id) ==
    /\ reply' = Reply("poll_revision", session_id,
                      poll_revision(sessions, revisions, session_id))
    /\ UNCHANGED <<sessions, counter, attaching, posting, revisions>>
    /\ AmpFrame

NextAmp ==
    \/ AttachThread(ThreadSample)
    \/ \E ran \in CreateRuns : AttachCreated(create_thread(ran))
    \/ \E ran \in CreateRuns : AttachFailed(create_thread(ran))
    \/ \E pending \in attaching : AttachInsert(pending)
    \/ \E session_id \in SessionIds : PostUnknown(session_id)
    \/ \E session_id \in SessionIds : PostSpawn(session_id)
    \/ \E pending \in posting : PostStore(pending)
    \/ \E r \in 1..Len(revisions), ran \in ContinueRuns : CliReturn(r, ran)
    \/ \E r \in 1..(MaxCalls - 1) : TaskWrite(r)
    \/ \E session_id \in SessionIds : Poll(session_id)

SpecAmp == InitAmp /\ [][NextAmp]_vars

\* The spawned thread is a runnable OS thread that, once the CLI is back,
\* only takes the progress lock, which a poll holds for one clone; and the
\* caller keeps polling every session.
FairAmp ==
    /\ \A r \in 1..(MaxCalls - 1) : WF_vars(TaskWrite(r))
    /\ \A session_id \in SessionIds : WF_vars(Poll(session_id))

SpecAmpLive == SpecAmp /\ FairAmp

(***************************************************************************)
(* The state machine of one AmpCli::run call: the calling thread, the      *)
(* child process, the two reader threads and the clock of wait_timeout.    *)
(***************************************************************************)
\* n bytes of output, one of them no UTF-8
OutputOf(n) == [i \in 1..n |-> <<111, 255, NewLine>>[((i - 1) % 3) + 1]]

\* the children: one that cannot be spawned, and every way of reading the
\* payload or not, writing more than a pipe holds or nothing, ending or not
ChildPlans ==
    {NoChild}
    \cup {ChildPlan(TRUE, reads, first, out, err, ends, forks) :
            reads \in BOOLEAN, first \in {"read", "write"},
            out \in {<<>>, OutputOf(MaxPipe + 1)},
            err \in {<<>>, <<98, NewLine>>},
            ends \in {"exit0", "exit1", "signal", "never"},
            forks \in BOOLEAN}

\* the stdin payloads: none, an empty one, one a pipe holds and one it does
\* not hold
Payloads ==
    {<<>>} \cup {<<[i \in 1..n |-> 97]>> : n \in {0, MaxPipe, MaxPipe + 1}}

InitRun ==
    /\ ApplyIdle
    /\ ConvIdle
    /\ DiffIdle
    /\ EngineIdle
    /\ PluginIdle
    /\ AmpIdle
    /\ \E payload \in Payloads, plan \in ChildPlans :
          run = [NoRun EXCEPT !.pc = "spawn", !.payload = payload, !.plan = plan]

RunFrame == UNCHANGED <<applyVars, convVars, diffVars, engineVars, pluginVars, ampVars>>

\* the child or a process it left behind holds its ends of the pipes
ChildEndsOpen == run.stage \notin {"none", "exited"} \/ run.plan.forks

\* command.spawn() succeeds (amp.rs:76-89); stdin is a pipe when there is a
\* payload and /dev/null when there is none
RunSpawn ==
    /\ run.pc = "spawn"
    /\ run.plan.found
    /\ run' = [run EXCEPT !.pc = IF run.payload # <<>> THEN "write" ELSE "readers",
                          !.left = IF run.payload # <<>> THEN run.payload[1] ELSE <<>>,
                          !.writer = run.payload # <<>>,
                          !.todo = [st \in OutputStreams |->
                                       IF st = "stdout" THEN run.plan.out
                                       ELSE run.plan.err],
                          !.stage = Head(Stages(run.plan))]
    /\ RunFrame

\* command.spawn() fails
RunSpawnFails ==
    /\ run.pc = "spawn"
    /\ ~run.plan.found
    /\ run' = [run EXCEPT !.pc = "done", !.result = <<Failure(SpawnFailed)>>]
    /\ RunFrame

\* stdin.write_all (amp.rs:93): one write of what the pipe has room for
RunWrite ==
    /\ run.pc = "write"
    /\ run.left # <<>>
    /\ ChildEndsOpen
    /\ Len(run.stdin) < MaxPipe
    /\ run' = [run EXCEPT !.stdin = @ \o Chunk(run.left, MaxPipe - Len(run.stdin)),
                          !.left = Rest(run.left, MaxPipe - Len(run.stdin))]
    /\ RunFrame

\* stdin.write_all fails: no process holds the read end
RunWriteBroken ==
    /\ run.pc = "write"
    /\ run.left # <<>>
    /\ ~ChildEndsOpen
    /\ run' = [run EXCEPT !.pc = "done", !.writer = FALSE,
                          !.result = <<Failure(WriteFailed)>>]
    /\ RunFrame

\* stdin.write_all is through and stdin is dropped (amp.rs:96)
RunWritten ==
    /\ run.pc = "write"
    /\ run.left = <<>>
    /\ run' = [run EXCEPT !.pc = "readers", !.writer = FALSE]
    /\ RunFrame

\* the two reader threads are spawned (amp.rs:99-113)
RunReaders ==
    /\ run.pc = "readers"
    /\ run' = [run EXCEPT !.pc = "wait",
                          !.readers = [st \in OutputStreams |-> "reading"]]
    /\ RunFrame

\* a reader thread: read_to_end takes what the pipe holds
ReaderRead(st) ==
    /\ run.readers[st] = "reading"
    /\ run.pipes[st] # <<>>
    /\ run' = [run EXCEPT !.buffers[st] = @ \o run.pipes[st], !.pipes[st] = <<>>]
    /\ RunFrame

\* a reader thread: read_to_end sees the end of the stream and returns
ReaderEof(st) ==
    /\ run.readers[st] = "reading"
    /\ run.pipes[st] = <<>>
    /\ ~ChildEndsOpen
    /\ run' = [run EXCEPT !.readers[st] = "eof"]
    /\ RunFrame

\* wait_timeout returns the status and wait reaps the child (amp.rs:115-133)
RunWaited ==
    /\ run.pc = "wait"
    /\ run.stage = "exited"
    /\ run' = [run EXCEPT !.pc = "join_stdout"]
    /\ RunFrame

\* wait_timeout returns None: kill, wait, and the error (amp.rs:117-121)
RunTimeout ==
    /\ run.pc = "wait"
    /\ run.stage # "exited"
    /\ run' = [run EXCEPT !.pc = "done", !.stage = "exited",
                          !.status = <<"killed">>,
                          !.result = <<Failure(TimedOut)>>]
    /\ RunFrame

\* join_reader(stdout_handle) (amp.rs:135)
RunJoinStdout ==
    /\ run.pc = "join_stdout"
    /\ run.readers["stdout"] = "eof"
    /\ run' = [run EXCEPT !.pc = "join_stderr"]
    /\ RunFrame

\* join_reader(stderr_handle) and the return (amp.rs:136-149)
RunJoinStderr ==
    /\ run.pc = "join_stderr"
    /\ run.readers["stderr"] = "eof"
    /\ run' = [run EXCEPT !.pc = "done",
                          !.result = <<Returned(run.status[1],
                                                join_reader(run.buffers["stdout"]),
                                                join_reader(run.buffers["stderr"]))>>]
    /\ RunFrame

\* the child reads what its stdin holds
ChildRead ==
    /\ run.stage = "read"
    /\ run.stdin # <<>>
    /\ run' = [run EXCEPT !.stdin = <<>>]
    /\ RunFrame

\* the child sees the end of its stdin
ChildReadEof ==
    /\ run.stage = "read"
    /\ run.stdin = <<>>
    /\ ~run.writer
    /\ run' = [run EXCEPT !.stage = NextStage(run.plan, "read")]
    /\ RunFrame

\* the child writes to stdout or stderr what the pipe has room for
ChildWrite(st) ==
    /\ run.stage = st
    /\ Len(run.pipes[st]) < MaxPipe
    /\ run' = [run EXCEPT
                  !.pipes[st] = @ \o Chunk(run.todo[st], MaxPipe - Len(run.pipes[st])),
                  !.todo[st] = Rest(run.todo[st], MaxPipe - Len(run.pipes[st])),
                  !.stage = IF Rest(run.todo[st], MaxPipe - Len(run.pipes[st])) = <<>>
                            THEN NextStage(run.plan, st) ELSE st]
    /\ RunFrame

\* the child exits or is ended by a signal
ChildExit ==
    /\ run.stage = "end"
    /\ run.plan.ends # "never"
    /\ run' = [run EXCEPT !.stage = "exited", !.status = <<run.plan.ends>>]
    /\ RunFrame

NextRun ==
    \/ RunSpawn
    \/ RunSpawnFails
    \/ RunWrite
    \/ RunWriteBroken
    \/ RunWritten
    \/ RunReaders
    \/ \E st \in OutputStreams : ReaderRead(st)
    \/ \E st \in OutputStreams : ReaderEof(st)
    \/ RunWaited
    \/ RunTimeout
    \/ RunJoinStdout
    \/ RunJoinStderr
    \/ ChildRead
    \/ ChildReadEof
    \/ \E st \in OutputStreams : ChildWrite(st)
    \/ ChildExit

SpecRun == InitRun /\ [][NextRun]_vars

\* The calling thread, the reader threads and the child are scheduled by
\* the operating system, and the clock of wait_timeout runs: each takes its
\* step when the step stays possible.
FairRun ==
    /\ WF_vars(RunSpawn) /\ WF_vars(RunSpawnFails)
    /\ WF_vars(RunWrite) /\ WF_vars(RunWriteBroken) /\ WF_vars(RunWritten)
    /\ WF_vars(RunReaders)
    /\ \A st \in OutputStreams :
          WF_vars(ReaderRead(st)) /\ WF_vars(ReaderEof(st)) /\ WF_vars(ChildWrite(st))
    /\ WF_vars(RunWaited) /\ WF_vars(RunTimeout)
    /\ WF_vars(RunJoinStdout) /\ WF_vars(RunJoinStderr)
    /\ WF_vars(ChildRead) /\ WF_vars(ChildReadEof) /\ WF_vars(ChildExit)

SpecRunLive == SpecRun /\ FairRun

(***************************************************************************)
(* Properties.                                                             *)
(***************************************************************************)
ValidationKinds ==
    {"AbsolutePath", "PathTraversal", "MissingFile", "UnsupportedSide",
     "LineOutOfBounds", "ColumnOutOfBounds", "InvalidRange", "OverlappingEdits"}

Called == call.op # "none"

\* what build_change makes of one path of the suggestion on the tree the call
\* started from
ChangeOf(path) ==
    build_change(RepoRoot, call.preTree, suggestion, path, EditsOf(suggestion, path))

Range(seq) == {seq[i] : i \in 1..Len(seq)}

\* the changed files of the plan, in the order apply takes them
ChangedPlan == Changed(call.plan)

IsPrefix(t, u) == Len(t) <= Len(u) /\ t = SubSeq(u, 1, Len(t))

\* the path passes sanitize_path and reading it fails with an io::Error
\* other than NotFound
Unreadable(p) ==
    /\ sanitize_path(p) = "Ok"
    /\ read_to_string(RepoRoot, call.preTree, p).kind \notin {"Ok", "NotFound"}

\* the errors compute_changes returns: a validation error, or the Io of a
\* file that could not be read
PlanFailed ==
    \/ call.result.kind \in ValidationKinds
    \/ call.result.kind = "Io" /\ call.writeCalls = <<>>
                               /\ Unreadable(call.result.path)

\* the paths of the suggestion whose file build_change refuses
FailingPaths == {p \in PathsOf(suggestion) : ChangeOf(p).kind # "Ok"}

\* C1 as claimed: when some edit of some file fails validation, apply
\* returns a validation error of the claim's list and has modified no file
\* and no index entry.
C1_ReturnsValidationError ==
    (call.op = "apply"
        /\ \E p \in PathsOf(suggestion) : ChangeOf(p).kind \in ValidationKinds)
    => /\ call.result.kind \in ValidationKinds
       /\ call.writeCalls = <<>> /\ call.stageCalls = <<>>
       /\ tree = call.preTree
       /\ index = call.preIndex /\ memIndex = call.preIndex

\* C1 amended: apply validates every file before it writes any: when some
\* file of the suggestion fails validation or cannot be read, apply returns
\* the error of the first such file in path order - a validation error, or
\* Io for a file whose read fails other than with NotFound - has made no
\* write and no staging call, and the working tree and the index are as
\* they were - also the files whose own edits were all valid.
C1_ValidateAllBeforeWrite ==
    (call.op = "apply" /\ FailingPaths # {})
    => /\ PlanFailed
       /\ call.result = Result(ChangeOf(Least(FailingPaths)).kind, Least(FailingPaths))
       /\ call.writeCalls = <<>> /\ call.stageCalls = <<>>
       /\ tree = call.preTree
       /\ index = call.preIndex /\ memIndex = call.preIndex

\* apply was refused for a file that sorts after a valid file with a change
C1_Witness ==
    /\ call.op = "apply"
    /\ call.result.kind \in ValidationKinds
    /\ \E p \in PathsOf(suggestion) :
           /\ ChangeOf(p).kind = "Ok"
           /\ ChangeOf(p).original # ChangeOf(p).updated
           /\ StrLess(p, call.result.path)

\* C2: dry_run leaves every file's bytes and the index unchanged, whether it
\* returns previews or an error.
C2_DryRunWritesNothing ==
    call.op = "dry_run"
    => tree = call.preTree /\ index = call.preIndex /\ memIndex = call.preIndex

\* dry_run returned a preview of a changed file
C2_Witness ==
    /\ call.op = "dry_run"
    /\ call.result.kind = "Ok"
    /\ Len(call.previews) > 0

\* C3: when apply returns Ok, every file of the suggestion whose
\* reconstructed text differs from its original text holds the reconstructed
\* text on disk, and so does its entry in the persisted index.
C3_OkMeansWrittenAndStaged ==
    (call.op = "apply" /\ call.result.kind = "Ok")
    => \A i \in 1..Len(call.plan) :
           call.plan[i].original # call.plan[i].updated
           => /\ tree[FileOf(call.plan[i].path)] = <<call.plan[i].updated>>
              /\ index[FileOf(call.plan[i].path)] = <<call.plan[i].updated>>

\* apply returned Ok after changing two files
C3_Witness ==
    /\ call.op = "apply"
    /\ call.result.kind = "Ok"
    /\ Len(ChangedPlan) = 2

\* the failing file of a failed apply is the last one fs::write was called for
FailedAt == Len(call.writeCalls)

\* apply failed in its loop: fs::write or add_path returned the error
ApplyFailedOnFile ==
    /\ call.op = "apply"
    /\ call.result.kind \in {"Io", "GitApply"}
    /\ call.writeCalls # <<>>

\* C4 as claimed: after an I/O or staging failure on the K-th changed file,
\* the changed files before K hold their new text, and file K and every
\* later file still hold their original text.
C4_FileKUntouched ==
    ApplyFailedOnFile
    => \A j \in 1..Len(ChangedPlan) :
           tree[FileOf(ChangedPlan[j].path)] =
               IF j < FailedAt THEN <<ChangedPlan[j].updated>>
               ELSE <<ChangedPlan[j].original>>

\* C4 amended: after an I/O or staging failure on the K-th changed file, the
\* changed files before K hold their new text and every file other than
\* those and file K is as it was; file K holds its new text after a staging
\* failure, and after a failed write its old text or a prefix of the new one.
C4_PartialApply ==
    ApplyFailedOnFile
    => /\ \A j \in 1..(FailedAt - 1) :
              tree[FileOf(ChangedPlan[j].path)] = <<ChangedPlan[j].updated>>
       /\ \A f \in FileNames :
              f \notin {FileOf(ChangedPlan[j].path) : j \in 1..FailedAt}
              => tree[f] = call.preTree[f]
       /\ call.result.kind = "GitApply"
          => tree[FileOf(ChangedPlan[FailedAt].path)]
                 = <<ChangedPlan[FailedAt].updated>>
       /\ call.result.kind = "Io"
          => \/ tree[FileOf(ChangedPlan[FailedAt].path)]
                    = call.preTree[FileOf(ChangedPlan[FailedAt].path)]
             \/ IsPrefix(tree[FileOf(ChangedPlan[FailedAt].path)][1],
                         ChangedPlan[FailedAt].updated)

\* staging failed on the second of two changed files
C4_Witness ==
    /\ ApplyFailedOnFile
    /\ call.result.kind = "GitApply"
    /\ FailedAt = 2
    /\ Len(ChangedPlan) = 2

\* the byte range of edit i of the suggestion in the text of its file
SpanOf(i) ==
    span(read_to_string(RepoRoot, call.preTree, suggestion[i].location.path).text,
         suggestion[i].location)

Overlap(r1, r2) == r1.start < r2.end /\ r2.start < r1.end

Touch(r1, r2) == ~Overlap(r1, r2) /\ (r1.end = r2.start \/ r2.end = r1.start)

\* the suggestion is two edits of one file that is present, and both resolve
TwoResolvedEdits ==
    /\ Len(suggestion) = 2
    /\ suggestion[1].location.path = suggestion[2].location.path
    /\ sanitize_path(suggestion[1].location.path) = "Ok"
    /\ read_to_string(RepoRoot, call.preTree, suggestion[1].location.path).kind = "Ok"
    /\ SpanOf(1).kind = "Ok" /\ SpanOf(2).kind = "Ok"

\* C5: two edits of one file whose byte ranges overlap make dry_run and
\* apply fail with OverlappingEdits and leave the file unmodified; two edits
\* that only touch (one ends where the other starts) are accepted.
C5_OverlapRejectedTouchAccepted ==
    (Called /\ TwoResolvedEdits)
    => /\ Overlap(SpanOf(1), SpanOf(2))
          => call.result.kind = "OverlappingEdits" /\ tree = call.preTree
       /\ Touch(SpanOf(1), SpanOf(2))
          => call.result.kind \notin ValidationKinds

BaseEdits == {i \in 1..Len(suggestion) : suggestion[i].location.side = "Base"}

\* every check that apply and dry_run make before they reach edit i passes:
\* the paths before its path, its path and its file, and the edits of its
\* file listed before it
ReachesEdit(i) ==
    /\ \A p \in PathsOf(suggestion) :
           StrLess(p, suggestion[i].location.path) => ChangeOf(p).kind = "Ok"
    /\ sanitize_path(suggestion[i].location.path) = "Ok"
    /\ read_to_string(RepoRoot, call.preTree, suggestion[i].location.path).kind = "Ok"
    /\ \A j \in 1..(i - 1) :
           suggestion[j].location.path = suggestion[i].location.path
           => SpanOf(j).kind = "Ok"

\* C6: a suggestion whose edits are all for one file, under a path that
\* passes the path check, and that has a Base-side edit is rejected with
\* UnsupportedSide, and no offset is computed for that edit.
C6_BaseAlwaysUnsupportedSide ==
    (/\ Called
     /\ BaseEdits # {}
     /\ \A i \in 1..Len(suggestion) :
            /\ suggestion[i].location.path = suggestion[1].location.path
            /\ sanitize_path(suggestion[i].location.path) = "Ok")
    => /\ call.result.kind = "UnsupportedSide"
       /\ BaseEdits \cap call.offsetsFor = {}

\* What the code does keep of C6: a suggestion with a Base-side edit is
\* rejected by dry_run and apply with a validation error, or with the read
\* error of a file that could not be read, and nothing is written; the error
\* is UnsupportedSide for that edit's path when every check made before the
\* edit is reached passes; and no offset is ever computed for a Base edit.
C6_BaseRejectedBeforeOffsets ==
    (Called /\ BaseEdits # {})
    => /\ PlanFailed
       /\ tree = call.preTree /\ call.writeCalls = <<>>
       /\ BaseEdits \cap call.offsetsFor = {}
       /\ \A i \in BaseEdits :
              ReachesEdit(i)
              => /\ call.result.kind = "UnsupportedSide"
                 /\ call.result.path = suggestion[i].location.path

\* a Base edit listed after a resolved Head edit of the same file was
\* rejected: offsets were computed for the Head edit alone
C6_Witness ==
    /\ Called
    /\ Len(suggestion) = 2
    /\ BaseEdits = {2}
    /\ call.result.kind = "UnsupportedSide"
    /\ call.offsetsFor = {1}

\* the paths of the suggestion that are absolute or hold a ".." segment
EscapingPaths ==
    {p \in PathsOf(suggestion) : p[1] = Slash \/ <<Dot, Dot>> \in Range(Segments(p))}

EscapeKind(p) == IF p[1] = Slash THEN "AbsolutePath" ELSE "PathTraversal"

\* C7 as claimed: a suggestion with an absolute path or a ".." segment makes
\* dry_run and apply return AbsolutePath or PathTraversal, and no file is
\* read or written before the rejection.
C7_NoAccessBeforeRejection ==
    (Called /\ EscapingPaths # {})
    => /\ call.result.kind \in {"AbsolutePath", "PathTraversal"}
       /\ call.reads = <<>>
       /\ call.writeCalls = <<>>

\* C7 amended: such a suggestion is rejected with a validation error, or
\* with the read error of a file that could not be read, and no file is
\* written; the escaping path is never read, nor is any path that sorts
\* after it; the error is AbsolutePath or PathTraversal for the first
\* escaping path when every path that sorts before it passes validation,
\* and by then every path that sorts before it has been read.
C7_EscapingPathNeverRead ==
    (Called /\ EscapingPaths # {})
    => /\ PlanFailed
       /\ call.writeCalls = <<>> /\ tree = call.preTree
       /\ \A p \in EscapingPaths : \A r \in Range(call.reads) : StrLess(r, p)
       /\ (\A q \in PathsOf(suggestion) :
               StrLess(q, Least(EscapingPaths)) => ChangeOf(q).kind = "Ok")
          => /\ call.result = Result(EscapeKind(Least(EscapingPaths)),
                                     Least(EscapingPaths))
             /\ Range(call.reads) =
                   {q \in PathsOf(suggestion) : StrLess(q, Least(EscapingPaths))}

\* a path was rejected as PathTraversal after another file had been read
C7_Witness ==
    /\ Called
    /\ call.result.kind = "PathTraversal"
    /\ call.reads # <<>>

\* C8: a file whose reconstructed text equals its current text gets no
\* preview from dry_run and no write and no staging call from apply; when
\* every file is such, there are no previews, writes or staging calls and
\* the tree and the index stay as they were.
C8_NoOpFilesSkipped ==
    (Called /\ ~PlanFailed)
    => /\ \A i \in 1..Len(call.plan) :
              call.plan[i].original = call.plan[i].updated
              => /\ \A k \in 1..Len(call.previews) :
                        call.previews[k].path # call.plan[i].path
                 /\ call.plan[i].path \notin Range(call.writeCalls)
                 /\ call.plan[i].path \notin Range(call.stageCalls)
       /\ ChangedPlan = <<>>
          => /\ call.previews = <<>>
             /\ call.writeCalls = <<>> /\ call.stageCalls = <<>>
             /\ tree = call.preTree /\ index = call.preIndex

\* apply wrote one file and skipped another whose edits change nothing
C8_Witness ==
    /\ call.op = "apply"
    /\ call.result.kind = "Ok"
    /\ Len(call.plan) = 2
    /\ Len(call.writeCalls) = 1

\* the byte length of the scalar that starts with byte b
Utf8Width(b) == IF b < 128 THEN 1 ELSE IF b < 224 THEN 2 ELSE IF b < 240 THEN 3 ELSE 4

\* the offsets at which the scalars of t start, and the offset after the
\* last one, found by decoding t from its first byte
RECURSIVE ScalarBoundaries(_, _)
ScalarBoundaries(t, i) ==
    IF i >= Len(t) THEN {i}
    ELSE {i} \cup ScalarBoundaries(t, i + Utf8Width(t[i + 1]))

\* t is whole scalars: decoding it ends exactly at its length, and every
\* scalar starts with a lead byte
WholeScalars(t) ==
    /\ Len(t) \in ScalarBoundaries(t, 0)
    /\ \A i \in ScalarBoundaries(t, 0) : i < Len(t) => ~(t[i + 1] >= 128 /\ t[i + 1] < 192)

OnBoundary(t, o) == o.kind = "Ok" => o.value \in ScalarBoundaries(t, 0) /\ o.value <= Len(t)

\* C9: every offset that offset returns lies between 0 and the text's byte
\* length on a scalar boundary, and the splice of build_change never panics
\* and never splits a scalar, for any edits that passed validation.
C9_OffsetsOnScalarBoundaries ==
    converted # <<>>
    => /\ OnBoundary(text, converted[1].start)
       /\ OnBoundary(text, converted[1].end)
       /\ converted[1].change.kind = "Ok"
          => /\ ~converted[1].change.panic
             /\ WholeScalars(converted[1].change.updated)

\* two edits were spliced into a text with a two-byte scalar, one of them
\* replacing a range that starts after the scalar
C9_Witness ==
    /\ converted # <<>>
    /\ extras # <<>>
    /\ converted[1].change.kind = "Ok"
    /\ Len(text) > 1 /\ text[1] = 195
    /\ location.start = Pos(1, 2)
    /\ converted[1].span.end > converted[1].span.start

NewLines(t) == Cardinality({i \in 1..Len(t) : t[i] = NewLine})

NewlineTerminated(t) == t = <<>> \/ t[Len(t)] = NewLine

\* C10: in a text of N newline-terminated lines, (line N+1, column 1) is the
\* text's byte length and (line N+1, column 2) is ColumnOutOfBounds.
C10_EndOfFilePosition ==
    (converted # <<>> /\ NewlineTerminated(text))
    => /\ location.start = Pos(NewLines(text) + 1, 1)
          => converted[1].start = OkOffset(Len(text))
       /\ location.end = Pos(NewLines(text) + 1, 2)
          => converted[1].end.kind = "ColumnOutOfBounds"

\* both positions were converted for a text of two lines
C10_Witness ==
    /\ converted # <<>>
    /\ NewlineTerminated(text)
    /\ NewLines(text) = 2
    /\ location.start = Pos(3, 1)
    /\ location.end = Pos(3, 2)

\* the number of line starts OffsetConverter::new records for t
RecordedLineStarts(t) == NewLines(t) + 1

\* what C11 says offset returns for position p of text t
LineCheck(t, p, o) ==
    /\ o.kind = "LineOutOfBounds"
          <=> (p.line = 0 \/ p.line - 1 > RecordedLineStarts(t))
    /\ p.line - 1 = RecordedLineStarts(t)
          => IF unwrap_or(p.column, 1) = 1 THEN o = OkOffset(Len(t))
             ELSE o.kind = "ColumnOutOfBounds"

\* C11: offset returns LineOutOfBounds exactly when line = 0 or line - 1
\* exceeds the number of recorded line starts; when line - 1 equals that
\* number, column 1 (or no column) yields the text's length and every other
\* column is ColumnOutOfBounds.
C11_LineBounds ==
    converted # <<>>
    => /\ LineCheck(text, location.start, converted[1].start)
       /\ LineCheck(text, location.end, converted[1].end)

\* a text of two recorded line starts: line 3 is accepted at column 1 and
\* line 4 is out of bounds
C11_Witness ==
    /\ converted # <<>>
    /\ NewLines(text) = 1
    /\ location.start = Pos(3, 1)
    /\ converted[1].start = OkOffset(Len(text))
    /\ location.end.line = 4
    /\ converted[1].end.kind = "LineOutOfBounds"

\* the offset at which line l (1-based) of t starts: after the (l-1)-th '\n'
LineStartOf(t, l) ==
    IF l = 1 THEN 0
    ELSE CHOOSE i \in 1..Len(t) :
            t[i] = NewLine /\ NewLines(SubSeq(t, 1, i)) = l - 1

\* the offset at which line l of t ends: the next line's start, or t's end
LineEndOf(t, l) == IF l <= NewLines(t) THEN LineStartOf(t, l + 1) ELSE Len(t)

\* the offsets in from..(to - 1) at which a scalar of t starts
ScalarsIn(t, from, to) == {i \in ScalarBoundaries(t, 0) : from <= i /\ i < to}

\* the offset after the first n scalars of the line from..to
AfterScalars(t, from, to, n) ==
    CHOOSE o \in ScalarBoundaries(t, 0) :
        from <= o /\ o <= to /\ Cardinality(ScalarsIn(t, from, o)) = n

\* what C12 says offset returns for column c of a line from..to of t
ColumnCheck(t, from, to, c, o) ==
    IF 1 <= c /\ c <= Cardinality(ScalarsIn(t, from, to)) + 1
    THEN o = OkOffset(AfterScalars(t, from, to, c - 1))
    ELSE o.kind = "ColumnOutOfBounds"

PositionCheck(t, p, o) ==
    (1 <= p.line /\ p.line <= RecordedLineStarts(t))
    => ColumnCheck(t, LineStartOf(t, p.line), LineEndOf(t, p.line),
                   unwrap_or(p.column, 1), o)

\* C12: in a line of the table holding k scalars, column c in 1..k+1 is the
\* line start plus the bytes of the first c-1 scalars, column 0 and every
\* column past k+1 are ColumnOutOfBounds, and no column is column 1.
C12_ColumnOffsets ==
    converted # <<>>
    => /\ PositionCheck(text, location.start, converted[1].start)
       /\ PositionCheck(text, location.end, converted[1].end)

\* in the second line of a text, "\u{e9}a", column 3 is its end and column 4 is
\* past it
C12_Witness ==
    /\ converted # <<>>
    /\ text = <<NewLine>> \o EAcute \o <<97>>
    /\ location.start = Pos(2, 3)
    /\ converted[1].start = OkOffset(4)
    /\ location.end = Pos(2, 4)
    /\ converted[1].end.kind = "ColumnOutOfBounds"

\* C13: every DiffFile that is binary has no hunks, whatever callbacks
\* came, and in whatever order.
C13_BinaryFilesHaveNoHunks ==
    \A i \in 1..Len(files) : files[i].is_binary => files[i].hunks = <<>>

\* the binary flag came for a file that had a hunk with a line
C13_Witness ==
    /\ last.op = "mark_binary"
    /\ last.before # <<>>
    /\ last.before[Len(last.before)].hunks # <<>>
    /\ last.before[Len(last.before)].hunks[1].lines # <<>>
    /\ files[Len(files)].is_binary
    /\ files[Len(files)].hunks = <<>>

\* the DiffLines of a file, hunk after hunk
RECURSIVE LinesOfHunks(_)
LinesOfHunks(hunks) ==
    IF hunks = <<>> THEN <<>>
    ELSE hunks[1].lines \o LinesOfHunks(Tail(hunks))

KindCount(file, kind) == Len(SelectSeq(LinesOfHunks(file.hunks), LAMBDA l : l.kind = kind))

\* C14: each file's stats.additions and stats.deletions are the numbers of
\* Addition and Deletion lines in its hunks.
C14_StatsMatchLines ==
    \A i \in 1..Len(files) :
        /\ files[i].stats.additions = KindCount(files[i], "Addition")
        /\ files[i].stats.deletions = KindCount(files[i], "Deletion")

\* C15: a DiffFile made by start_file has an old_path only if its status is
\* Renamed or Copied and the old_path differs from its path.
C15_OldPathOnlyForOtherPath ==
    \A i \in 1..Len(files) :
        files[i].old_path # <<>>
        => /\ files[i].status \in {"Renamed", "Copied"}
           /\ files[i].old_path[1] # files[i].path

\* C16: a stored Context line has both line numbers, an Addition line the
\* head one only, a Deletion line the base one only.
C16_LineNumbersMatchKind ==
    \A i \in 1..Len(files) :
        \A l \in {LinesOfHunks(files[i].hunks)[k] :
                     k \in 1..Len(LinesOfHunks(files[i].hunks))} :
            /\ l.kind = "Context" => l.base_line # <<>> /\ l.head_line # <<>>
            /\ l.kind = "Addition" => l.base_line = <<>> /\ l.head_line # <<>>
            /\ l.kind = "Deletion" => l.base_line # <<>> /\ l.head_line = <<>>

\* the callback numbers of a sequence of stored items increase
Ascending(items) == \A j \in 1..(Len(items) - 1) : items[j].at < items[j + 1].at

\* every item of the sequence was stored after callback from and before
\* callback to
Within(items, from, to) ==
    \A j \in 1..Len(items) : from < items[j].at /\ items[j].at < to

\* the number of the callback that started the file after file i, or that of
\* a callback yet to come
NextFileAt(i) == IF i < Len(files) THEN files[i + 1].at ELSE events + 1

NextHunkAt(hunks, j, fileEnd) == IF j < Len(hunks) THEN hunks[j + 1].at ELSE fileEnd

HunksInOrder(hunks, fileAt, fileEnd) ==
    /\ Ascending(hunks)
    /\ Within(hunks, fileAt, fileEnd)
    /\ \A j \in 1..Len(hunks) :
          /\ Ascending(hunks[j].lines)
          /\ Within(hunks[j].lines, hunks[j].at, NextHunkAt(hunks, j, fileEnd))

\* C17: files are in the order of their file-started callbacks, a file's
\* hunks in the order of its hunk-started callbacks, a hunk's lines in the
\* order of their line callbacks; every line sits in the hunk started last
\* before it, of the file started last before it.
C17_EmissionOrder ==
    /\ Ascending(files)
    /\ \A i \in 1..Len(files) :
          HunksInOrder(files[i].hunks, files[i].at, NextFileAt(i))

\* two files, each with a hunk that holds a line
C17_Witness ==
    /\ Len(files) = 2
    /\ files[1].hunks # <<>>
    /\ files[1].hunks[1].lines # <<>>
    /\ files[2].hunks # <<>>
    /\ files[2].hunks[1].lines # <<>>

OrdinaryOrigins == {"Context", "Addition", "Deletion"}

\* C18: a line callback whose origin is not one of the three ordinary ones
\* stores no DiffLine and changes no counter.
C18_OnlyOrdinaryOriginsStore ==
    (last.op = "push_line" /\ last.origin \notin OrdinaryOrigins)
    => files = last.before

StatusTable ==
    [k \in DeltaKinds |->
        CASE k \in {"Added", "Untracked"} -> "Added"
          [] k = "Deleted" -> "Deleted"
          [] k = "Renamed" -> "Renamed"
          [] k = "Copied" -> "Copied"
          [] k = "Typechange" -> "TypeChange"
          [] OTHER -> "Modified"]

\* C19: convert_status gives every backend change kind a status: added and
\* untracked Added, deleted Deleted, renamed Renamed, copied Copied,
\* type-changed TypeChange, the five others Modified.
C19_StatusMapping ==
    events = 1 => files[1].status = StatusTable[delta.status]

\* an untracked file was classified
C19_Witness ==
    /\ events = 1
    /\ delta.status = "Untracked"
    /\ files[1].status = "Added"

\* C20 as stated: the path is the old-side path when the status is Deleted
\* or the new-side path is absent, the new-side path otherwise.
C20_OldPathWhenDeletedOrNoNew ==
    events = 1
    => files[1].path =
          IF files[1].status = "Deleted" \/ delta.new_path = <<>>
          THEN unwrap_or(delta.old_path, <<>>)
          ELSE delta.new_path[1]

\* C20: the path is the old-side path when that path is present and the
\* status is Deleted or the new-side path is absent; otherwise the new-side
\* path when present; otherwise the empty string. The path of a side is the
\* String to_string_lossy makes of it.
C20_CanonicalPath ==
    events = 1
    => files[1].path =
          IF delta.old_path # <<>>
             /\ (files[1].status = "Deleted" \/ delta.new_path = <<>>)
          THEN from_utf8_lossy(delta.old_path[1])
          ELSE from_utf8_lossy(unwrap_or(delta.new_path, <<>>))

\* a deleted file with both paths present and different
C20_Witness ==
    /\ events = 1
    /\ files[1].status = "Deleted"
    /\ delta.old_path = <<PathA>>
    /\ delta.new_path = <<PathB>>
    /\ files[1].path = PathA

\* original[from..] with the sorted replacements put in at their offsets
RECURSIVE Stitched(_, _, _)
Stitched(original, reps, from) ==
    IF reps = <<>> THEN SubSeq(original, from + 1, Len(original))
    ELSE SubSeq(original, from + 1, reps[1].start) \o reps[1].replacement
         \o Stitched(original, Tail(reps), reps[1].end)

\* C22: when a file's edits pass validation, the text built is
\* original[0..s1] + r1 + original[e1..s2] + ... + rn + original[en..] for
\* the sorted replacements (s1,e1,r1)..(sn,en,rn), and the splice does not
\* panic.
C22_ReplacementsLandAtOriginalOffsets ==
    (converted # <<>> /\ converted[1].change.kind = "Ok")
    => /\ ~converted[1].change.panic
       /\ converted[1].change.updated =
             Stitched(converted[1].change.original,
                      converted[1].change.replacements, 0)

\* three edits were spliced, the first of them changing the text's length
C22_Witness ==
    /\ converted # <<>>
    /\ converted[1].change.kind = "Ok"
    /\ Len(converted[1].change.replacements) = 3
    /\ converted[1].change.replacements[1].end
          > converted[1].change.replacements[1].start + 1
    /\ converted[1].change.replacements[3].start > 1

\* the number of edits of the suggestion that name the path and carry the
\* replacement text
EditsWith(path, r) ==
    Cardinality({i \in 1..Len(suggestion) :
        suggestion[i].location.path = path /\ suggestion[i].replacement = r})

ReplacementsWith(c, r) ==
    Cardinality({k \in 1..Len(c.replacements) : c.replacements[k].replacement = r})

PathOrdered(items) ==
    \A i \in 1..(Len(items) - 1) : StrLess(items[i].path, items[i + 1].path)

\* C23: when validation passes there is one file change per distinct path
\* string of the suggestion, in ascending path order, built from all the
\* edits that name the path and from no other; dry_run's previews are in
\* that order too.
C23_OneChangePerPathInOrder ==
    (Called /\ call.result.kind = "Ok")
    => /\ {call.plan[i].path : i \in 1..Len(call.plan)} = PathsOf(suggestion)
       /\ PathOrdered(call.plan)
       /\ \A i \in 1..Len(call.plan) :
             /\ Len(call.plan[i].replacements)
                   = Cardinality({k \in 1..Len(suggestion) :
                        suggestion[k].location.path = call.plan[i].path})
             /\ \A k \in 1..Len(suggestion) :
                   ReplacementsWith(call.plan[i], suggestion[k].replacement)
                       = EditsWith(call.plan[i].path, suggestion[k].replacement)
       /\ PathOrdered(call.previews)
       /\ {call.previews[i].path : i \in 1..Len(call.previews)}
             \subseteq PathsOf(suggestion)

\* a dry run of edits listed for b and then for a previews a and then b
C23_Witness ==
    /\ call.op = "dry_run"
    /\ call.result.kind = "Ok"
    /\ Len(suggestion) = 2
    /\ suggestion[1].location.path = PathB
    /\ suggestion[2].location.path = PathA
    /\ Len(call.previews) = 2
    /\ call.previews[1].path = PathA

\* C24: a Head-side edit whose positions both resolve is InvalidRange
\* exactly when its start offset is greater than its end offset; with equal
\* offsets it is accepted and puts its replacement in without deleting.
C24_InvalidRangeIffStartAfterEnd ==
    (converted # <<>> /\ converted[1].start.kind = "Ok"
        /\ converted[1].end.kind = "Ok")
    => /\ converted[1].span.kind = "InvalidRange"
             <=> converted[1].start.value > converted[1].end.value
       /\ converted[1].change.kind = "InvalidRange"
             <=> converted[1].start.value > converted[1].end.value
       /\ (converted[1].start.value = converted[1].end.value /\ extras = <<>>)
             => /\ converted[1].change.kind = "Ok"
                /\ converted[1].change.updated =
                      SubSeq(text, 1, converted[1].start.value) \o EAcute
                      \o SubSeq(text, converted[1].start.value + 1, Len(text))

\* an edit of equal offsets inside a text was planned
C24_Witness ==
    /\ converted # <<>>
    /\ extras = <<>>
    /\ converted[1].start = OkOffset(1)
    /\ converted[1].end = OkOffset(1)
    /\ Len(text) = 3
    /\ converted[1].change.kind = "Ok"

\* C29: when build_change succeeds the replacements are in ascending start
\* order and every earlier one ends at or before the start of every later
\* one.
C29_AllPairsDisjoint ==
    (converted # <<>> /\ converted[1].change.kind = "Ok")
    => \A i \in 1..Len(converted[1].change.replacements) :
          \A j \in (i + 1)..Len(converted[1].change.replacements) :
              /\ converted[1].change.replacements[i].start
                    <= converted[1].change.replacements[j].start
              /\ converted[1].change.replacements[i].end
                    <= converted[1].change.replacements[j].start

\* three replacements passed, the edits listed in descending order
C29_Witness ==
    /\ converted # <<>>
    /\ converted[1].change.kind = "Ok"
    /\ Len(converted[1].change.replacements) = 3
    /\ converted[1].change.replacements[1].replacement = <<51>>
    /\ converted[1].change.replacements[3].replacement = <<49>>

\* the orders in which n edits can be listed
Orders(n) == {p \in [1..n -> 1..n] : \A i, j \in 1..n : p[i] = p[j] => i = j}

Verdict(kind) ==
    IF kind = "Ok" THEN "accepted"
    ELSE IF kind = "OverlappingEdits" THEN "overlapping"
    ELSE "other"

\* C30: whether the edits of a file are accepted or rejected as
\* OverlappingEdits is the same for every order of listing them.
C30_VerdictIgnoresOrder ==
    converted # <<>>
    => \A p \in Orders(1 + Len(extras)) :
          Verdict(build_change(RepoRoot, [f \in FileNames |-> <<text>>],
                               EditsNumbered(<<location>> \o extras), PathA, p).kind)
              = Verdict(converted[1].change.kind)

\* the callback found no file, a binary file, or a file with no hunk
CurrentBinary(fs) == fs # <<>> /\ fs[Len(fs)].is_binary

NoOpenHunk(fs) == fs = <<>> \/ fs[Len(fs)].is_binary \/ fs[Len(fs)].hunks = <<>>

\* C28: a hunk callback while the current file is binary, and a line
\* callback before any file, on a binary file or on a file with no hunk,
\* leave the builder's files as they were: no hunk, no line, no counter
\* changes.
C28_IgnoredCallbacksChangeNothing ==
    /\ (last.op = "start_hunk" /\ CurrentBinary(last.before)) => files = last.before
    /\ (last.op = "push_line" /\ NoOpenHunk(last.before)) => files = last.before

\* a hunk callback reached a binary file that has counted a line, and
\* nothing changed
C28_Witness ==
    /\ last.op = "start_hunk"
    /\ CurrentBinary(last.before)
    /\ last.before[Len(last.before)].stats.additions > 0
    /\ files = last.before

\* a line callback of an addition reached a file with no hunk, and nothing
\* changed
C28_LineIgnored ==
    /\ last.op = "push_line"
    /\ last.origin = "Addition"
    /\ last.before # <<>>
    /\ ~last.before[Len(last.before)].is_binary
    /\ last.before[Len(last.before)].hunks = <<>>
    /\ files = last.before

\* the repository has no head commit that can be resolved: the HEAD lookup
\* fails, or the reference does not resolve or peel to a commit
NoResolvableHead(repo) ==
    repo.head # "Ok" \/ repo.fault \in {"resolve", "peel_to_commit"}

AbsentHead(repo) == repo.head \in {"NotFound", "UnbornBranch"}

NoTreeCall(calls) == \A i \in 1..Len(calls) : calls[i] \notin TreeCalls

\* C21 as stated: diff on a repository with no resolvable head commit
\* returns the missing-head-revision error, before any tree lookup or tree
\* comparison.
C21_UnresolvableHeadIsMissingHead ==
    (outcome # <<>> /\ NoResolvableHead(repository))
    => /\ outcome[1].kind = "MissingHeadRevision"
       /\ NoTreeCall(outcome[1].calls)

\* C21: diff returns the missing-head-revision error exactly when the HEAD
\* lookup reports a reference that is not found or an unborn branch; every
\* other failure to reach a head commit comes back as the git error of the
\* failing call; in both cases no tree was looked up or compared.
C21_AbsentHeadIsMissingHead ==
    outcome # <<>>
    => /\ outcome[1].kind = "MissingHeadRevision" <=> AbsentHead(repository)
       /\ (NoResolvableHead(repository) /\ ~AbsentHead(repository))
             => /\ outcome[1].kind = "Git"
                /\ outcome[1].from \in {"head", "resolve", "peel_to_commit"}
       /\ NoResolvableHead(repository) => NoTreeCall(outcome[1].calls)
       /\ ~NoResolvableHead(repository) /\ repository.fault # "parent"
             => ~NoTreeCall(outcome[1].calls)

\* diff was called on a repository whose branch is unborn
C21_Witness ==
    /\ outcome # <<>>
    /\ repository.head = "UnbornBranch"
    /\ outcome[1] = [kind |-> "MissingHeadRevision", calls |-> <<"head">>]

\* every test plugin whose guard is alive is the plugin with_defaults
\* registers under its id
Active(plugins, guard) == get(plugins, guard.id) = <<guard>>

\* C25: a plugin registered with register_test_plugin is in every registry
\* with_defaults builds until its guard is dropped, whatever other
\* registrations and drops happen, also of the same id.
C25_ActiveUntilGuardDropped ==
    \A guard \in guards : Active(with_defaults(store), guard)

\* C27: a service method called for an id the registry does not hold
\* returns PluginNotRegistered naming that id, and no plugin method is
\* invoked.
C27_MissingPluginIsReported ==
    (served.op # "none" /\ get(registry, served.plugin_id) = <<>>)
    => /\ served.result = [kind |-> "PluginNotRegistered", plugin |-> served.plugin_id]
       /\ served.invoked = <<>>

\* poll_revision was called for a test plugin after its guard was dropped
\* and a new service was built
C27_Witness ==
    /\ served.op = "poll_revision"
    /\ served.plugin_id = "fake"
    /\ registrations > 0
    /\ get(registry, "fake") = <<>>
    /\ served.result.kind = "PluginNotRegistered"

\* the revision is the one its session's slot holds
InSlot(r) ==
    /\ r <= Len(revisions)
    /\ revisions[r].session_id \in DOMAIN sessions
    /\ sessions[revisions[r].session_id].revision = <<r>>

\* the CLI of the revision is back, with an output or with an error
CliBack(r, kind) ==
    /\ r <= Len(revisions)
    /\ revisions[r].ran # <<>>
    /\ revisions[r].ran[1].kind = kind

\* the last call to return is a poll of the revision's session that gave
\* the state and the detail
PollGave(r, state, detail) ==
    /\ reply.op = "poll_revision"
    /\ reply.session_id = revisions[r].session_id
    /\ reply.result = OkValue(RevisionProgress(state, detail))

\* a poll gave Completed with the trimmed output of the revision's CLI
PolledCompleted(r) ==
    /\ CliBack(r, "Ok")
    /\ PollGave(r, "Completed", trim(revisions[r].ran[1].value.stdout))

\* a poll gave Failed with the text of the error of the revision's CLI
PolledFailed(r) ==
    /\ CliBack(r, "Failure")
    /\ PollGave(r, "Failed", revisions[r].ran[1].message)

\* C26: once post_review has returned Ok and put a revision in the
\* session's slot, and the CLI of that revision exits successfully, polls
\* of the session come to return Completed with the trimmed output; when
\* the CLI fails they come to return Failed with the text of the error; in
\* both cases for as long as the slot holds that revision.
C26_PollsReachFinalState ==
    \A r \in 1..(MaxCalls - 1) :
        (InSlot(r) /\ (CliBack(r, "Ok") \/ CliBack(r, "Failure")))
            ~> (~InSlot(r) \/ PolledCompleted(r) \/ PolledFailed(r))

\* a poll returned Failed with the text of the CLI's error for a revision in
\* the slot
C26_Witness ==
    /\ InSlot(1)
    /\ CliBack(1, "Failure")
    /\ PollGave(1, "Failed", FailedStatus)

\* a poll returned Completed with the trimmed output
C26_Completed ==
    /\ InSlot(1)
    /\ CliBack(1, "Ok")
    /\ PollGave(1, "Completed", <<100, 111, 110, 101>>)

\* the suggestion with every edit naming its file by the one spelling the
\* working tree resolves it to
OneSpelling(sug) ==
    [i \in 1..Len(sug) |-> [sug[i] EXCEPT !.location.path = FileOf(@)]]

\* the plan passes and the tree holds the updated text of each of its files
Reflects(tr, cc) ==
    /\ cc.kind = "Ok"
    /\ ~cc.panic
    /\ \A i \in 1..Len(cc.changes) :
          tr[FileOf(cc.changes[i].path)] = <<cc.changes[i].updated>>

\* C31: after a successful apply every file holds what planning all the
\* edits that resolve to it together gives, and that plan passes the
\* overlap check, whatever relative spellings the edits use for the file.
C31_SameFileEditsPlannedTogether ==
    (call.op = "apply" /\ call.result.kind = "Ok")
    => Reflects(tree, compute_changes(RepoRoot, call.preTree, OneSpelling(suggestion)))

\* C32: when apply fails on a write or on staging, the index on disk is
\* what it was before the call, whatever files were rewritten; and when
\* apply succeeds the index on disk holds the new text of every changed
\* file.
C32_IndexPersistedOnlyAtEnd ==
    call.op = "apply"
    => /\ call.result.kind \in {"Io", "GitApply"} => index = call.preIndex
       /\ call.result.kind = "Ok"
          => \A i \in 1..Len(call.plan) :
                call.plan[i].original # call.plan[i].updated
                => index[FileOf(call.plan[i].path)] = <<call.plan[i].updated>>

\* staging failed on the second changed file: the first is rewritten and
\* staged in memory, and the index on disk is as before
C32_Witness ==
    /\ call.op = "apply"
    /\ call.result.kind = "GitApply"
    /\ Len(call.stageCalls) = 2
    /\ tree[FileOf(call.stageCalls[1])] # call.preTree[FileOf(call.stageCalls[1])]
    /\ memIndex # index
    /\ index = call.preIndex

PreviewPaths(previews) == {previews[i].path : i \in 1..Len(previews)}

\* the previewed paths, in the order of the previews
PreviewSeq(previews) == [i \in 1..Len(previews) |-> previews[i].path]

ButLast(seq) == SubSeq(seq, 1, Len(seq) - 1)

\* the paths apply has written: its fs::write calls, but for one that failed
Written(done) ==
    IF done.result.kind = "Io" /\ done.writeCalls # <<>>
    THEN ButLast(done.writeCalls) ELSE done.writeCalls

\* the paths apply has staged: its add_path calls, but for one that failed
Staged(done) ==
    IF done.result.kind = "GitApply" THEN ButLast(done.stageCalls) ELSE done.stageCalls

\* what apply did against what dry_run gives for the same suggestion and tree
Agree(done, preview) ==
    /\ preview.result.kind # "Ok" => done.result = preview.result
    /\ preview.result.kind = "Ok"
       => /\ done.result.kind \notin ValidationKinds \cup {"Panic"}
          /\ done.result.kind = "Io" => done.writeCalls # <<>>
    /\ IsPrefix(done.writeCalls, PreviewSeq(preview.previews))
    /\ IsPrefix(Written(done), done.writeCalls)
    /\ IsPrefix(Staged(done), Written(done))
    /\ done.result.kind = "Ok"
       => /\ Range(Written(done)) = PreviewPaths(preview.previews)
          /\ Range(Staged(done)) = PreviewPaths(preview.previews)
    /\ done.result.kind \in {"Io", "GitApply"} /\ done.writeCalls # <<>>
       => /\ Range(Staged(done)) # PreviewPaths(preview.previews)
          /\ Len(Staged(done)) = Len(done.writeCalls) - 1

\* C33 as claimed: with no failure of the file system or of the index put
\* in, apply fails validation exactly when dry_run does and with the same
\* error, and the paths dry_run previews are the paths apply has written
\* and staged.
C33_PreviewedAreWrittenAndStaged ==
    (call.op = "apply" /\ call.fault = NoFault)
    => /\ dry_run(RepoRoot, call.preTree, suggestion).result.kind # "Ok"
          => call.result = dry_run(RepoRoot, call.preTree, suggestion).result
       /\ Range(Written(call)) =
             PreviewPaths(dry_run(RepoRoot, call.preTree, suggestion).previews)
       /\ Range(Staged(call)) =
             PreviewPaths(dry_run(RepoRoot, call.preTree, suggestion).previews)

\* C33 amended: for one suggestion and one working tree, apply fails
\* validation exactly when dry_run does and with the same error; an apply
\* that returns Ok has written and staged exactly the paths dry_run
\* previews; an apply that a failing write or add_path stops has written
\* and staged initial parts of the previewed paths, in their order, and has
\* not staged the path it stopped at.
C33_DryRunAndApplyAgree ==
    call.op = "apply" => Agree(call, dry_run(RepoRoot, call.preTree, suggestion))

\* apply returned Ok for two files, one of them without a net change
C33_Witness ==
    /\ call.op = "apply"
    /\ call.result.kind = "Ok"
    /\ Len(call.plan) = 2
    /\ Len(call.writeCalls) = 1
    /\ PreviewPaths(dry_run(RepoRoot, call.preTree, suggestion).previews) = Range(call.writeCalls)

\* apply and dry_run both refuse the suggestion with the same error
C33_BothRefuse ==
    /\ call.op = "apply"
    /\ call.result.kind = "OverlappingEdits"
    /\ dry_run(RepoRoot, call.preTree, suggestion).result = call.result

\* what span's checks, taken in the order of the claim, make of one edit of a
\* file whose text is t
EditError(t, loc) ==
    IF loc.side # "Head" THEN "UnsupportedSide"
    ELSE IF offset(t, loc.start).kind # "Ok" THEN offset(t, loc.start).kind
    ELSE IF offset(t, loc.end).kind # "Ok" THEN offset(t, loc.end).kind
    ELSE IF offset(t, loc.start).value > offset(t, loc.end).value THEN "InvalidRange"
    ELSE "Ok"

FailingEdits(t, path) ==
    SelectSeq(EditsOf(suggestion, path),
              LAMBDA i : EditError(t, suggestion[i].location) # "Ok")

\* the check of a file that fails first: the path, the read, an edit, or
\* none of the three
FileStage(path) ==
    IF sanitize_path(path) # "Ok" THEN "path"
    ELSE IF read_to_string(RepoRoot, call.preTree, path).kind # "Ok" THEN "read"
    ELSE IF FailingEdits(read_to_string(RepoRoot, call.preTree, path).text, path) # <<>> THEN "edit"
    ELSE "late"

ExpectedKind(path) ==
    CASE FileStage(path) = "path" -> sanitize_path(path)
      [] FileStage(path) = "read" ->
            IF read_to_string(RepoRoot, call.preTree, path).kind = "NotFound"
            THEN "MissingFile" ELSE "Io"
      [] FileStage(path) = "edit" ->
            EditError(read_to_string(RepoRoot, call.preTree, path).text,
                      suggestion[Head(FailingEdits(
                          read_to_string(RepoRoot, call.preTree, path).text, path))].location)
      [] OTHER -> ChangeOf(path).kind

FailingFiles == {p \in PathsOf(suggestion) : ExpectedKind(p) # "Ok"}

\* C34: the error a call returns is that of the first failing file in
\* ascending path order; within a file the path check comes before the read,
\* the read before the checks of the edits in suggestion order (side, start
\* position, end position, start after end), and the overlap check comes
\* after all of them, so that a file with a failing edit never yields
\* OverlappingEdits.
C34_FirstErrorInCheckOrder ==
    Called =>
        /\ \A p \in PathsOf(suggestion) :
              FileStage(p) = "late" => ChangeOf(p).kind \in {"Ok", "OverlappingEdits"}
        /\ IF FailingFiles = {}
           THEN ~PlanFailed
           ELSE call.result = Result(ExpectedKind(Least(FailingFiles)),
                                     Least(FailingFiles))

\* two invalid edits in two files, the later edit naming the lesser path:
\* the error is that of the lesser path
C34_Witness ==
    /\ Called
    /\ Len(suggestion) = 2
    /\ suggestion[1].location.path = PathA
    /\ suggestion[1].location.side = "Base"
    /\ suggestion[2].location.path = PathAbs
    /\ call.result = Result("AbsolutePath", PathAbs)

\* two edits of one file with the same non-empty range, the second on the base side:
\* the error is UnsupportedSide
C34_SideBeforeOverlap ==
    /\ Called
    /\ Len(suggestion) = 2
    /\ suggestion[1].location.path = PathA
    /\ suggestion[2].location.path = PathA
    /\ suggestion[1].location.side = "Head"
    /\ suggestion[2].location.side = "Base"
    /\ SpanOf(1).kind = "Ok"
    /\ SpanOf(1).start < SpanOf(1).end
    /\ suggestion[2].location.start = suggestion[1].location.start
    /\ suggestion[2].location.end = suggestion[1].location.end
    /\ call.result = Result("UnsupportedSide", PathA)

\* p does not come after q in (line, column) order; an absent column counts
\* as column 1, as offset reads it
PositionLeq(p, q) ==
    \/ p.line < q.line
    \/ p.line = q.line /\ unwrap_or(p.column, 1) <= unwrap_or(q.column, 1)

\* C35: for one text, when two positions both resolve and the first does not
\* come after the second in (line, column) order, the first's offset is not
\* greater than the second's; so span never answers InvalidRange for a range
\* whose start does not come after its end.
C35_OffsetsFollowPositions ==
    converted # <<>> =>
        /\ (/\ converted[1].start.kind = "Ok"
            /\ converted[1].end.kind = "Ok"
            /\ PositionLeq(location.start, location.end))
           => converted[1].start.value <= converted[1].end.value
        /\ PositionLeq(location.start, location.end)
           => converted[1].span.kind # "InvalidRange"

\* a range from a column past a two-byte scalar to the line one past the
\* last line: both ends resolve, and the span is that of the offsets
C35_Witness ==
    /\ converted # <<>>
    /\ text = EAcute \o <<97, NewLine>>
    /\ location.start = Pos(1, 2)
    /\ location.end = Pos(3, 1)
    /\ converted[1].start = OkOffset(2)
    /\ converted[1].end = OkOffset(4)
    /\ converted[1].span.kind = "Ok"

\* a post_review of the session returns Ok in the step
PostReturned(session_id) ==
    \E pending \in posting :
        pending.session_id = session_id /\ pending \notin posting'

\* what poll_revision returns, before and after a step, for a session that
\* is pending before it only when no post_review has returned
PollsFollowPosts(session_id, now, next) ==
    /\ session_id \notin DOMAIN sessions => next.state = "Pending"
    /\ session_id \in DOMAIN sessions =>
          /\ PostReturned(session_id) => next.state # "Pending"
          /\ ~PostReturned(session_id) =>
                (next.state = "Pending" <=> now.state = "Pending")
          /\ (now.state \in {"Completed", "Failed"} /\ ~PostReturned(session_id))
                => next = now

\* C36: poll_revision of a session returns Pending from the session's
\* creation until a post_review on it returns Ok and never afterwards; once
\* it returns Completed or Failed it returns that state and detail until
\* another post_review on the session returns.
C36_PendingThenStable ==
    [][\A session_id \in DOMAIN sessions' :
          PollsFollowPosts(session_id,
              poll_revision(sessions, revisions, session_id).value,
              poll_revision(sessions', revisions', session_id).value)]_vars

\* a poll returned Completed for a session whose first revision is done,
\* while a second post_review on the session has spawned its thread, whose
\* CLI has failed, and has not yet returned
C36_Witness ==
    /\ Len(revisions) = 2
    /\ InSlot(1)
    /\ PolledCompleted(1)
    /\ [session_id |-> revisions[1].session_id, revision |-> 2] \in posting
    /\ revisions[2].progress.state = "Failed"

\* the post_review that started the revision has returned, and the slot of
\* its session holds another revision
Superseded(r) ==
    /\ r <= Len(revisions)
    /\ \A pending \in posting : pending.revision # r
    /\ ~InSlot(r)

\* what every session's poll returns
PollOfAll(map, heap) ==
    [session_id \in DOMAIN map |-> poll_revision(map, heap, session_id)]

\* C37: when a post_review on a session returns, polls of the session
\* report the progress of the revision it started, and the revision the slot
\* held before is superseded for good: no step of a superseded revision's
\* thread, its completion or its failure, changes what poll_revision
\* returns for any session.
C37_SupersededNeverReported ==
    [][/\ \A pending \in posting \ posting' :
              /\ poll_revision(sessions', revisions', pending.session_id)
                    = OkValue(revisions'[pending.revision].progress)
              /\ \A r \in Range(sessions[pending.session_id].revision) :
                    r # pending.revision => Superseded(r)'
       /\ \A r \in 1..Len(revisions) :
              Superseded(r) =>
                  /\ Superseded(r)'
                  /\ revisions'[r] # revisions[r]
                        => PollOfAll(sessions', revisions') = PollOfAll(sessions, revisions)]_vars

\* the first revision of a session failed after a second post_review on
\* the session returned; the second revision's CLI is still running and a
\* poll of the session returned the second revision's InProgress
C37_Witness ==
    /\ Len(revisions) = 2
    /\ revisions[1].session_id = revisions[2].session_id
    /\ Superseded(1)
    /\ InSlot(2)
    /\ revisions[1].progress.state = "Failed"
    /\ revisions[2].task = "running"
    /\ PollGave(2, "InProgress", ProcessingStarted)

\* C38: an attach that returns Ok returns a session id no session entry
\* has, adds the entry of that id and leaves every other entry as it was,
\* whether attach calls follow each other or overlap; no entry goes away;
\* and an attach whose thread creation fails adds no entry.
C38_AttachIdsDistinct ==
    [][/\ \A pending \in attaching \ attaching' :
              /\ pending.session_id \notin DOMAIN sessions
              /\ DOMAIN sessions' = DOMAIN sessions \cup {pending.session_id}
              /\ \A k \in DOMAIN sessions : sessions'[k] = sessions[k]
              /\ reply'.op = "attach"
              /\ reply'.result.kind = "Ok"
              /\ reply'.result.value.session_id = pending.session_id
       /\ \A p \in attaching, q \in attaching :
              p.session_id = q.session_id => p = q
       /\ DOMAIN sessions \subseteq DOMAIN sessions'
       /\ (reply'.op = "attach" /\ reply'.result.kind # "Ok")
              => DOMAIN sessions' = DOMAIN sessions]_vars

\* two attach calls overlapped: the one that took the first id returned
\* after the one that took the second, and each has its own entry
C38_Witness ==
    /\ DOMAIN sessions = {SessionId(1), SessionId(2)}
    /\ attaching = {}
    /\ reply.op = "attach"
    /\ reply.session_id = SessionId(1)
    /\ reply.result.kind = "Ok"

\* an attach failed for want of a thread, after an attach that succeeded
C38_FailedAttach ==
    /\ DOMAIN sessions = {SessionId(1)}
    /\ attaching = {}
    /\ counter = 2
    /\ reply.op = "attach"
    /\ reply.result = Failure(NoThreadId)

\* the call that returns in the step: a post_review or a poll_revision
ReturnsInStep ==
    /\ reply' # reply
    /\ reply'.op \in {"post_review", "poll_revision"}

\* C39: the session ids that post_review and poll_revision answer with Ok
\* are those of the entries attach made; for any other id they return the
\* unknown-session error, spawn no thread and leave every session and
\* revision as it is; and an entry once made stays, with its thread.
C39_UnknownSessionRefused ==
    [][/\ ReturnsInStep =>
              IF reply'.session_id \in DOMAIN sessions
              THEN reply'.result.kind = "Ok"
              ELSE /\ reply'.result = Failure(UnknownSession)
                   /\ UNCHANGED <<sessions, revisions, posting>>
       /\ \A id \in SessionIds \ DOMAIN sessions :
              /\ poll_revision(sessions, revisions, id) = Failure(UnknownSession)
              /\ session(sessions, id) = Failure(UnknownSession)
       /\ \A r \in (Len(revisions) + 1)..Len(revisions') :
              revisions'[r].session_id \in DOMAIN sessions
       /\ \A pending \in posting' \ posting :
              pending.session_id \in DOMAIN sessions
       /\ \A k \in DOMAIN sessions :
              k \in DOMAIN sessions' /\ sessions'[k].thread = sessions[k].thread]_vars

\* a post_review for an id no attach returned was refused while a session
\* has a revision running
C39_Witness ==
    /\ DOMAIN sessions = {SessionId(1)}
    /\ InSlot(1)
    /\ revisions[1].task = "running"
    /\ reply = Reply("post_review", SessionId(2), Failure(UnknownSession))

\* a poll for an id no attach returned was refused
C39_PollRefused ==
    /\ DOMAIN sessions = {SessionId(1)}
    /\ reply = Reply("poll_revision", SessionId(0), Failure(UnknownSession))

\* the run call has returned
RunReturned == run.pc = "done" /\ run.result # <<>>

\* C40: every AmpCli::run call comes to return, with the output, a failure
\* or the timeout error, whatever the child does - also when it never reads
\* the payload, fills its output pipes or never exits.  Stated for a child
\* that leaves no process of its own behind.
C40_RunReturns == (run.pc = "spawn" /\ ~run.plan.forks) ~> RunReturned

\* the same for every child, also one that leaves a process behind
C40_RunReturnsAnyChild == (run.pc = "spawn") ~> RunReturned

\* the call is in write_all with the pipe full, and the child, which does
\* not read its stdin, will not exit
C40_StuckInWrite ==
    /\ run.pc = "write"
    /\ run.left # <<>>
    /\ Len(run.stdin) = MaxPipe
    /\ run.stage = "end"
    /\ ~run.plan.reads
    /\ run.plan.ends = "never"

\* the call is in join_reader after the child has exited, and a process the
\* child left behind holds the write end of the pipe
C40_StuckInJoin ==
    /\ run.pc = "join_stdout"
    /\ run.stage = "exited"
    /\ run.plan.forks
    /\ run.pipes["stdout"] = <<>>

\* the payload is one the pipe holds, or there is none
PayloadFits == run.payload = <<>> \/ Len(run.payload[1]) <= MaxPipe

\* a run whose payload the pipe holds, of a child that leaves no process
\* behind, comes to return
C40_RunReturnsWhenPipesClose ==
    (run.pc = "spawn" /\ PayloadFits /\ ~run.plan.forks) ~> RunReturned

\* the child wrote more than a pipe holds and never exited, and the call
\* returned the timeout error
C40_TimedOut ==
    /\ RunReturned
    /\ run.plan.ends = "never"
    /\ run.plan.out # <<>>
    /\ run.result = <<Failure(TimedOut)>>

\* the child exited with status 1 and the call returned its stderr, trimmed
C40_Failed ==
    /\ RunReturned
    /\ run.result = <<Failure(FailedWithStatus \o <<49, 58, 32, 98>>)>>

\* the child exited with status 0 and the call returned its output, the
\* byte that is no UTF-8 replaced
C40_Output ==
    /\ RunReturned
    /\ run.result = <<OkValue(ProcessOutput(<<111, 239, 191, 189, NewLine>>, <<>>))>>

====
